---- MODULE Spec2Model ----
(***************************************************************************)
(* State-machine model of the stress_detector signal-fusion core:          *)
(* the monitoring session of src/src/main.ts (frame loop, calibration,     *)
(* deception estimate, personality test), the SignalProcessor, the         *)
(* deception probability calculator and the BlinkDetector.                 *)
(*                                                                         *)
(* JavaScript numbers are modelled in fixed point: a real x is the integer *)
(* x * SCALE, truncated.  Timestamps are integers in milliseconds.         *)
(***************************************************************************)
EXTENDS Integers, Sequences, FiniteSets, TLC

VARIABLES
    runtimeState,   \* main.ts runtimeState (signalProcessor included)
    blinkDetector,  \* the exported BlinkDetector instance
    ui,             \* the DOM state the handlers read and write
    timers,         \* pending setTimeout / setInterval callbacks
    loop,           \* position of the frameLoop / analyzeFrame coroutine
    now,            \* Date.now()
    pl,             \* harness: one rolling buffer fed by pushLimited
    bd,             \* harness: one BlinkDetector fed arbitrary frames
    rt,             \* harness: two BlinkDetectors sampling one eye signal
    se,             \* harness: one emotion accumulator fed by updateStableEmotion
    fn              \* harness: one function applied to inputs drawn from a set

vars == <<runtimeState, blinkDetector, ui, timers, loop, now, pl, bd, rt, se, fn>>

mainVars == <<runtimeState, blinkDetector, ui, timers, loop, now>>

-----------------------------------------------------------------------------
(* Numbers *)

SCALE == 10 * 10 * 10

\* NaN, the result of arithmetic on undefined
NaN == 0 - (SCALE * SCALE * SCALE)

Abs(x) == IF x < 0 THEN 0 - x ELSE x

Min2(a, b) == IF a < b THEN a ELSE b

Max2(a, b) == IF a > b THEN a ELSE b

\* Math.max with an undefined / NaN operand
MathMax(a, b) == IF a = NaN \/ b = NaN THEN NaN ELSE Max2(a, b)

\* a / b on fixed-point operands
FDiv(a, b) == IF a = NaN \/ b = NaN THEN NaN ELSE (a * SCALE) \div b

\* Math.round of a fixed-point number, as an integer (half rounds up)
MathRound(x) == (x + (SCALE \div 2)) \div SCALE

\* Math.round(n / d) for integers n >= 0, d > 0
RoundRatio(n, d) == (2 * n + d) \div (2 * d)

clamp(value, min, max) == Min2(max, Max2(min, value))

RECURSIVE SumSeq(_)
SumSeq(s) == IF s = <<>> THEN 0 ELSE Head(s) + SumSeq(Tail(s))

\* the last n elements of s
LastN(s, n) == SubSeq(s, Len(s) - n + 1, Len(s))

\* a property read: undefined (NaN once used in arithmetic) when absent
Prop(obj, key) == IF key \in DOMAIN obj THEN obj[key] ELSE NaN

\* the element of a one-element set: {F(v) : v \in {e}} evaluates e once and
\* names its value v, as a const declaration does
Only(S) == CHOOSE x \in S : TRUE

-----------------------------------------------------------------------------
(* pushLimited / pushEmotionLimited *)

pushLimited_noShift(values, value, maxSize) == Append(values, value)

pushLimited(values, value, maxSize) ==
    LET pushed == Append(values, value)
    IN  IF Len(pushed) > maxSize THEN Tail(pushed) ELSE pushed

pushEmotionLimited(values, value, maxSize) ==
    LET pushed == Append(values, value)
    IN  IF Len(pushed) > maxSize THEN Tail(pushed) ELSE pushed

ATTENTION_HISTORY_SIZE == 30
EMOTION_HISTORY_SIZE == 40
AGE_SAMPLES_SIZE == 45
EAR_HISTORY_SIZE == 60

-----------------------------------------------------------------------------
(* BlinkDetector *)

EAR_THRESHOLD == (18 * SCALE) \div 100
MAR_THRESHOLD == (5 * SCALE) \div 10
windowSize == 60000
MIN_ELAPSED_MS == 1000
MS_PER_MINUTE == 60000

NewBlinkDetector == [frames |-> <<>>, blinkEvents |-> <<>>]

\* blinks per minute of the earlier BlinkDetector, scaled by the frame count
blinksPerMinute_frameCount(frames, blinkEvents) ==
    IF Len(frames) > 0
    THEN RoundRatio(Len(blinkEvents) * 600, Len(frames))
    ELSE 0

blinksPerMinute(frames, blinkEvents) ==
    LET elapsedWindowMs ==
            IF Len(frames) > 1
            THEN Max2(MIN_ELAPSED_MS, frames[Len(frames)].timestamp - frames[1].timestamp)
            ELSE 0
    IN  IF elapsedWindowMs > 0
        THEN RoundRatio(Len(blinkEvents) * MS_PER_MINUTE, elapsedWindowMs)
        ELSE 0

\* the frames / timestamps update() keeps: now - timestamp < windowSize
InWindow_inclusive(t, timestamp) == t - timestamp <= windowSize

InWindow(t, timestamp) == t - timestamp < windowSize

\* the edge test of update(): previous frame open, current frame closed
IsBlinkEdge_anyClosed(prev, curr) == ~curr.isEyeOpen

IsBlinkEdge(prev, curr) == prev.isEyeOpen /\ ~curr.isEyeOpen

\* BlinkDetector.update(ear, mar, now): the detector afterwards and the result
BlinkDetector_update(det, ear, mar, t) ==
    LET isEyeOpen == ear > EAR_THRESHOLD
        isYawning == mar > MAR_THRESHOLD
        pushed == Append(det.frames,
                         [timestamp |-> t, isEyeOpen |-> isEyeOpen, isYawning |-> isYawning])
        KeepFrame(f) == InWindow(t, f.timestamp)
        KeepEvent(e) == InWindow(t, e)
        frames == SelectSeq(pushed, KeepFrame)
        kept == SelectSeq(det.blinkEvents, KeepEvent)
        blinkEvents ==
            IF Len(frames) >= 2 /\ IsBlinkEdge(frames[Len(frames) - 1], frames[Len(frames)])
            THEN Append(kept, t)
            ELSE kept
    IN  [frames |-> frames,
         blinkEvents |-> blinkEvents,
         result |-> [blinks |-> blinksPerMinute(frames, blinkEvents),
                     isBlinking |-> ~isEyeOpen,
                     isYawning |-> isYawning]]

-----------------------------------------------------------------------------
(* SignalProcessor and calculateDeceptionProbability *)

\* the null baseline of a SignalProcessor on which setBaseline was never called
null == <<>>

DEFAULT_BASELINE ==
    [attentionMean |-> 75 * SCALE,
     attentionStd |-> 12 * SCALE,
     blinkRateMean |-> 15 * SCALE,
     blinkRateStd |-> 4 * SCALE,
     fatigueMean |-> 25 * SCALE,
     fatigueStd |-> 8 * SCALE,
     headMotionMean |-> 5 * SCALE,
     headMotionStd |-> 2 * SCALE,
     emotionVolatilityMean |-> (15 * SCALE) \div 100,
     emotionVolatilityStd |-> (8 * SCALE) \div 100]

NewSignalProcessor ==
    [baseline |-> null,
     currentSignals |-> [attention |-> 0, blinkRate |-> 0, fatigue |-> 0,
                         headMotion |-> 0, emotionVolatility |-> 0]]

setBaseline(sp, baseline) == [sp EXCEPT !.baseline = baseline]

updateSignals(sp, attention, blinkRate, fatigue, headMotion, emotionVolatility) ==
    [sp EXCEPT !.currentSignals =
        [attention |-> attention, blinkRate |-> blinkRate, fatigue |-> fatigue,
         headMotion |-> headMotion, emotionVolatility |-> emotionVolatility]]

\* |value - mean| / Math.max(std, floor)
ZScore(value, mean, std, floor) == FDiv(Abs(value - mean), MathMax(std, floor))

\* the z-scores of the current signals against a given baseline object
ZScoresAgainst(baseline, s) ==
    [attention |->
        ZScore(s.attention, Prop(baseline, "attentionMean"),
               Prop(baseline, "attentionStd"), SCALE \div 10),
     blinkRate |->
        ZScore(s.blinkRate, Prop(baseline, "blinkRateMean"),
               Prop(baseline, "blinkRateStd"), SCALE),
     fatigue |->
        ZScore(s.fatigue, Prop(baseline, "fatigueMean"),
               Prop(baseline, "fatigueStd"), SCALE),
     headMotion |->
        ZScore(s.headMotion, Prop(baseline, "headMotionMean"),
               Prop(baseline, "headMotionStd"), SCALE \div 10),
     emotionVolatility |->
        ZScore(s.emotionVolatility, Prop(baseline, "emotionVolatilityMean"),
               Prop(baseline, "emotionVolatilityStd"), SCALE \div 10)]

\* the earlier SignalProcessor: no default, an empty record without a baseline
calculateZScores_noDefault(sp) ==
    IF sp.baseline = null THEN <<>> ELSE ZScoresAgainst(sp.baseline, sp.currentSignals)

calculateZScores(sp) ==
    LET baseline == IF sp.baseline = null THEN DEFAULT_BASELINE ELSE sp.baseline
    IN  ZScoresAgainst(baseline, sp.currentSignals)

getBaseline(sp) == IF sp.baseline = null THEN DEFAULT_BASELINE ELSE sp.baseline

isUsingDefaultBaseline_never(sp) == FALSE

isUsingDefaultBaseline(sp) == sp.baseline = null

weights ==
    [attention |-> (28 * SCALE) \div 100,
     blinkRate |-> (22 * SCALE) \div 100,
     fatigue |-> (16 * SCALE) \div 100,
     headMotion |-> (18 * SCALE) \div 100,
     emotionVolatility |-> (16 * SCALE) \div 100]

WeightKeys == <<"attention", "blinkRate", "fatigue", "headMotion", "emotionVolatility">>

\* the z-score is halved and floored at 0 but never capped
NormalizedZ_uncapped(zScores, key) ==
    LET raw == Prop(zScores, key)
        z == IF raw = NaN THEN 0 ELSE raw
    IN  Max2(z \div 2, 0)

\* zScores[key] || 0, then Math.min(Math.max(z / 2, 0), 1)
NormalizedZ(zScores, key) ==
    LET raw == Prop(zScores, key)
        z == IF raw = NaN THEN 0 ELSE raw
    IN  Min2(Max2(z \div 2, 0), SCALE)

\* the percentage is returned as computed, neither clamped nor rounded
calculateDeceptionProbability_raw(zScores) ==
    IF DOMAIN zScores = {}
    THEN 0
    ELSE (SumSeq([i \in 1..Len(WeightKeys) |->
                     NormalizedZ(zScores, WeightKeys[i]) * weights[WeightKeys[i]]]) * 100)
         \div Max2(SumSeq([i \in 1..Len(WeightKeys) |-> weights[WeightKeys[i]]]), SCALE)

\* returns an integer 0..100; deceptionScore is kept in SCALE * SCALE units
calculateDeceptionProbability(zScores) ==
    IF DOMAIN zScores = {}
    THEN 0
    ELSE LET deceptionScore ==
                 SumSeq([i \in 1..Len(WeightKeys) |->
                            NormalizedZ(zScores, WeightKeys[i]) * weights[WeightKeys[i]]])
             totalWeight ==
                 SumSeq([i \in 1..Len(WeightKeys) |-> weights[WeightKeys[i]]])
             probability == (deceptionScore * 100) \div Max2(totalWeight, SCALE)
         IN  MathRound(Min2(Max2(probability, 0), 100 * SCALE))

-----------------------------------------------------------------------------
(* Helpers of main.ts *)

\* Math.round kept in fixed point
Rounded(x) == MathRound(x) * SCALE

\* alpha * newValue + (1 - alpha) * previousValue
applyEMA(newValue, previousValue, alpha) ==
    (alpha * newValue + (SCALE - alpha) * previousValue) \div SCALE

average(values) ==
    IF Len(values) = 0 THEN 0 ELSE SumSeq(values) \div Len(values)

RECURSIVE ISqrtIn(_, _, _)
ISqrtIn(x, lo, hi) ==
    IF lo >= hi THEN lo
    ELSE Only({IF mid * mid <= x THEN ISqrtIn(x, mid, hi) ELSE ISqrtIn(x, lo, mid - 1) :
                  mid \in {(lo + hi + 1) \div 2}})

\* floor of the square root of an integer 0 <= x < 2^31
ISqrt(x) == Only({ISqrtIn(v, 0, 46340) : v \in {x}})

\* Math.sqrt of a fixed-point number
MathSqrt(x) == ISqrt(x * SCALE)

\* Math.sqrt(yaw^2 + pitch^2 + roll^2)
HeadMotion(headPose) ==
    ISqrt(headPose.yaw * headPose.yaw + headPose.pitch * headPose.pitch
          + headPose.roll * headPose.roll)

RECURSIVE MinSeq(_)
MinSeq(s) == IF Len(s) = 1 THEN s[1] ELSE Min2(Head(s), MinSeq(Tail(s)))

EmotionLabels ==
    {"Neutral", "Feliz", "Triste", "Enojado", "Sorprendido", "Asustado", "Disgustado"}

normalizeEmotionLabel(label) ==
    CASE label \in {"Feliz", "happy"} -> "Feliz"
      [] label \in {"Triste", "sad"} -> "Triste"
      [] label \in {"Enojado", "angry"} -> "Enojado"
      [] label \in {"Sorprendido", "surprised"} -> "Sorprendido"
      [] label \in {"Asustado", "fear", "fearful"} -> "Asustado"
      [] label \in {"Disgustado", "disgust"} -> "Disgustado"
      [] OTHER -> "Neutral"

\* no face detected: analyzeFaceFromVideo resolved to null
NoFace == <<>>

Pct(n) == (n * SCALE) \div 100

combineEmotionSignals(faceEmotion, modelEmotion) ==
    IF faceEmotion = NoFace
    THEN [label |-> normalizeEmotionLabel(modelEmotion.label),
          score |-> clamp(modelEmotion.score, Pct(35), Pct(95))]
    ELSE LET face == [label |-> normalizeEmotionLabel(faceEmotion.label),
                      score |-> clamp(faceEmotion.score, Pct(35), Pct(95))]
             local == [label |-> normalizeEmotionLabel(modelEmotion.label),
                       score |-> clamp(modelEmotion.score, Pct(35), Pct(95))]
             swap == local.score > face.score + Pct(12)
             faceWeight == IF swap THEN Pct(45) ELSE Pct(58)
             localWeight == IF swap THEN Pct(55) ELSE Pct(42)
             faceStrength == (face.score * faceWeight) \div SCALE
             localStrength == (local.score * localWeight) \div SCALE
         IN  IF face.label = local.label
             THEN [label |-> face.label,
                   score |-> clamp(faceStrength + localStrength + Pct(3), Pct(40), Pct(95))]
             ELSE IF Abs(faceStrength - localStrength) < Pct(8)
             THEN IF face.label = "Neutral" /\ local.label # "Neutral"
                  THEN [label |-> local.label, score |-> clamp(local.score, Pct(40), Pct(95))]
                  ELSE [label |-> face.label, score |-> clamp(face.score, Pct(40), Pct(95))]
             ELSE IF faceStrength > localStrength
                  THEN [label |-> face.label, score |-> clamp(face.score, Pct(40), Pct(95))]
                  ELSE [label |-> local.label, score |-> clamp(local.score, Pct(40), Pct(95))]

-----------------------------------------------------------------------------
(* The stabilizers and estimators of main.ts.  Each takes runtimeState and   *)
(* returns the runtimeState it leaves behind with the value it returns.      *)

\* a slower decay
decayFactor_slow == Pct(95)

decayFactor == Pct(86)

\* the scan replaces the best entry on an equal score as well
RECURSIVE BestEntry_lastWins(_, _, _)
BestEntry_lastWins(entries, bestLabel, bestScore) ==
    IF entries = <<>> THEN [label |-> bestLabel, score |-> bestScore]
    ELSE IF Head(entries).score >= bestScore
         THEN BestEntry_lastWins(Tail(entries), Head(entries).label, Head(entries).score)
         ELSE BestEntry_lastWins(Tail(entries), bestLabel, bestScore)

\* emotionScores is the sequence of <<label, score>> entries in insertion order
RECURSIVE BestEntry(_, _, _)
BestEntry(entries, bestLabel, bestScore) ==
    IF entries = <<>> THEN [label |-> bestLabel, score |-> bestScore]
    ELSE IF Head(entries).score > bestScore
         THEN BestEntry(Tail(entries), Head(entries).label, Head(entries).score)
         ELSE BestEntry(Tail(entries), bestLabel, bestScore)

updateStableEmotion(rs, rawLabel, rawScore) ==
    LET decayed == [i \in 1..Len(rs.emotionScores) |->
                       [label |-> rs.emotionScores[i].label,
                        score |-> (rs.emotionScores[i].score * decayFactor) \div SCALE]]
        known == \E i \in 1..Len(decayed) : decayed[i].label = rawLabel
        scores == IF known
                  THEN [i \in 1..Len(decayed) |->
                           IF decayed[i].label = rawLabel
                           THEN [decayed[i] EXCEPT !.score = @ + rawScore]
                           ELSE decayed[i]]
                  ELSE Append(decayed, [label |-> rawLabel, score |-> rawScore])
        best == BestEntry(scores, rawLabel, 0)
        total == SumSeq([i \in 1..Len(scores) |-> scores[i].score])
        normalizedScore ==
            IF total > 0
            THEN clamp(FDiv(best.score, total) + Pct(25), Pct(35), Pct(92))
            ELSE Pct(65)
    IN  [rs |-> [rs EXCEPT !.emotionScores = scores],
         result |-> [label |-> best.label, score |-> normalizedScore]]

\* the smoothing target is the lowest sample
estimateAge_lowest(rs, faceAnalysis) ==
    IF faceAnalysis = NoFace
    THEN [rs |-> rs, result |-> [age |-> rs.stableAge, confidence |-> Pct(70)]]
    ELSE LET blend == faceAnalysis.blendshapes
             brow == (blend.browInnerUp + blend.browOuterUpLeft + blend.browOuterUpRight) \div 3
             smile == (blend.mouthSmileLeft + blend.mouthSmileRight) \div 2
             frown == (blend.mouthFrownLeft + blend.mouthFrownRight) \div 2
             eyeSquint == (blend.eyeSquintLeft + blend.eyeSquintRight) \div 2
             normalizedEar == clamp(FDiv(faceAnalysis.eyeAspectRatio - Pct(20), Pct(16)), 0, SCALE)
             ageOffset == (SCALE - normalizedEar) * 6 + eyeSquint * 5 + frown * 3
                          - smile * 4 - brow * 3
             instantaneousAge == clamp(Rounded(22 * SCALE + ageOffset), 18 * SCALE, 40 * SCALE)
             samples == pushLimited(rs.baselineAgeSamples, instantaneousAge, AGE_SAMPLES_SIZE)
             sorted == SortSeq(samples, <)
             median == IF Len(sorted) > 0
                       THEN sorted[1]
                       ELSE instantaneousAge
             stableAge == Rounded(applyEMA(median, rs.stableAge, Pct(12)))
             volatility == IF Len(sorted) > 4 THEN sorted[Len(sorted)] - sorted[1] ELSE 0
             confidence == clamp(Pct(90) - volatility \div 60, Pct(62), Pct(92))
         IN  [rs |-> [rs EXCEPT !.baselineAgeSamples = samples, !.stableAge = stableAge],
              result |-> [age |-> stableAge, confidence |-> confidence]]

estimateAge(rs, faceAnalysis) ==
    IF faceAnalysis = NoFace
    THEN [rs |-> rs, result |-> [age |-> rs.stableAge, confidence |-> Pct(70)]]
    ELSE LET blend == faceAnalysis.blendshapes
             brow == (blend.browInnerUp + blend.browOuterUpLeft + blend.browOuterUpRight) \div 3
             smile == (blend.mouthSmileLeft + blend.mouthSmileRight) \div 2
             frown == (blend.mouthFrownLeft + blend.mouthFrownRight) \div 2
             eyeSquint == (blend.eyeSquintLeft + blend.eyeSquintRight) \div 2
             normalizedEar == clamp(FDiv(faceAnalysis.eyeAspectRatio - Pct(20), Pct(16)), 0, SCALE)
             ageOffset == (SCALE - normalizedEar) * 6 + eyeSquint * 5 + frown * 3
                          - smile * 4 - brow * 3
             instantaneousAge == clamp(Rounded(22 * SCALE + ageOffset), 18 * SCALE, 40 * SCALE)
             samples == pushLimited(rs.baselineAgeSamples, instantaneousAge, AGE_SAMPLES_SIZE)
             sorted == SortSeq(samples, <)
             median == IF Len(sorted) > 0
                       THEN sorted[(Len(sorted) \div 2) + 1]
                       ELSE instantaneousAge
             stableAge == Rounded(applyEMA(median, rs.stableAge, Pct(12)))
             volatility == IF Len(sorted) > 4 THEN sorted[Len(sorted)] - sorted[1] ELSE 0
             confidence == clamp(Pct(90) - volatility \div 60, Pct(62), Pct(92))
         IN  [rs |-> [rs EXCEPT !.baselineAgeSamples = samples, !.stableAge = stableAge],
              result |-> [age |-> stableAge, confidence |-> confidence]]

estimateAttention(rs, faceAnalysis, emotion) ==
    IF faceAnalysis = NoFace
    THEN LET emotionPenalty ==
                 IF emotion.label \in {"Asustado", "Enojado"}
                 THEN clamp(emotion.score * 10, 0, 10 * SCALE)
                 ELSE IF emotion.label = "Triste"
                      THEN clamp(emotion.score * 7, 0, 7 * SCALE)
                      ELSE 0
         IN  [rs |-> rs, result |-> clamp(75 * SCALE - emotionPenalty, 20 * SCALE, 99 * SCALE)]
    ELSE LET gazeAway == Max2(faceAnalysis.eyeMetrics.eyeLookOut,
                              Max2(faceAnalysis.eyeMetrics.eyeLookUp,
                                   faceAnalysis.eyeMetrics.eyeLookDown))
             headYaw == FDiv(Abs(faceAnalysis.headPose.yaw), 45 * SCALE)
             headPitch == FDiv(Abs(faceAnalysis.headPose.pitch), 45 * SCALE)
             headAway == Max2(Min2(headYaw, SCALE), Min2(headPitch, SCALE))
             attentionRaw ==
                 100 * (SCALE - clamp((Pct(60) * gazeAway + Pct(40) * headAway) \div SCALE,
                                      0, SCALE))
             smoothed == applyEMA(attentionRaw, rs.smoothedAttention, Pct(15))
         IN  [rs |-> [rs EXCEPT !.smoothedAttention = smoothed],
              result |-> clamp(Rounded(smoothed), 20 * SCALE, 99 * SCALE)]

FatigueLevel(smoothedFatigue) ==
    IF smoothedFatigue >= 67 * SCALE THEN "Alta"
    ELSE IF smoothedFatigue >= 34 * SCALE THEN "Media" ELSE "Baja"

estimateFatigue(rs, faceAnalysis, blinkInfo, emotion) ==
    IF faceAnalysis = NoFace
    THEN [rs |-> rs,
          result |-> [score |-> 35 * SCALE, level |-> "Baja",
                      blinkRate |-> 14 * SCALE, eyeAspectRatio |-> Pct(34)]]
    ELSE LET ear == faceAnalysis.eyeAspectRatio
             blinkRate == blinkInfo.blinks * SCALE
             isYawning == blinkInfo.isYawning
             earHistory == pushLimited(rs.earHistory, ear, EAR_HISTORY_SIZE)
             blinkRateHistory ==
                 IF blinkRate > 0
                 THEN pushLimited(rs.blinkRateHistory, blinkRate, EAR_HISTORY_SIZE)
                 ELSE rs.blinkRateHistory
             earMin == MinSeq(earHistory)
             normalizedBlinkRate == clamp(blinkRate \div 28, 0, SCALE)
             lowBlinkPenalty ==
                 IF blinkRate > 0 /\ blinkRate < 8 * SCALE
                 THEN (8 * SCALE - blinkRate) \div 8
                 ELSE 0
             prolongedClosure == clamp(FDiv(Pct(20) - ear, Pct(7)), 0, SCALE)
             microSleepRisk == clamp(FDiv(Pct(17) - earMin, Pct(5)), 0, SCALE)
             yawnBonus == IF isYawning THEN SCALE ELSE 0
             IsClosed(e) == e < Pct(20)
             earClosedPercent ==
                 (Len(SelectSeq(earHistory, IsClosed)) * SCALE) \div Max2(Len(earHistory), 1)
             fatigueScore ==
                 clamp(earClosedPercent * 35 + prolongedClosure * 22
                       + normalizedBlinkRate * 18 + lowBlinkPenalty * 12
                       + microSleepRisk * 8 + yawnBonus * 12
                       + (IF emotion.label = "Triste" THEN emotion.score * 8 ELSE 0),
                       0, 100 * SCALE)
             smoothed == applyEMA(fatigueScore, rs.smoothedFatigue, Pct(18))
         IN  [rs |-> [rs EXCEPT !.earHistory = earHistory,
                                !.blinkRateHistory = blinkRateHistory,
                                !.yawnCount = IF isYawning THEN @ + 1 ELSE @,
                                !.smoothedFatigue = smoothed],
              result |-> [score |-> Rounded(smoothed),
                          level |-> FatigueLevel(smoothed),
                          blinkRate |-> Rounded(blinkRate),
                          eyeAspectRatio |-> ((ear + 5) \div 10) * 10]]

\* the whole emotion history is the window
EMOTION_WINDOW_all == EMOTION_HISTORY_SIZE

EMOTION_WINDOW == 20

calculateDeceptionEstimate(rs) ==
    LET avgA == average(rs.attentionHistory)
        attentionAvg == IF avgA = 0 THEN 75 * SCALE ELSE avgA
        blinkRate == rs.currentAnalysis.fatigue.blinkRate
        avgF == average(rs.fatigueHistory)
        fatigueAvg == IF avgF = 0 THEN 25 * SCALE ELSE avgF
        headMotion == HeadMotion(rs.currentAnalysis.headPose)
        recentEmotions ==
            LastN(rs.emotionHistory, Min2(EMOTION_WINDOW, Len(rs.emotionHistory)))
        transitions ==
            Cardinality({i \in 2..Len(recentEmotions) :
                            recentEmotions[i] # recentEmotions[i - 1]})
        emotionVolatility ==
            IF Len(recentEmotions) > 1
            THEN (transitions * SCALE) \div (Len(recentEmotions) - 1)
            ELSE 0
        sp == updateSignals(rs.signalProcessor, attentionAvg, blinkRate, fatigueAvg,
                            headMotion, emotionVolatility)
    IN  [rs |-> [rs EXCEPT !.signalProcessor = sp],
         result |-> calculateDeceptionProbability(calculateZScores(sp))]

\* calculateStats of the calibration completion callback
calculateStats(data) ==
    IF Len(data) = 0
    THEN [mean |-> 0, std |-> Pct(10)]
    ELSE Only({LET variance ==
                       SumSeq([i \in 1..Len(data) |->
                                  ((data[i] - mean) * (data[i] - mean)) \div SCALE])
                       \div Len(data)
               IN  Only({[mean |-> mean, std |-> IF root = 0 THEN Pct(10) ELSE root] :
                            root \in {MathSqrt(variance)}}) :
                  mean \in {SumSeq(data) \div Len(data)}})

\* the baseline object the completion callback passes to setBaseline
CalibratedBaseline(calibrationData) ==
    [attentionMean |-> calculateStats(calibrationData.attention).mean,
     attentionStd |-> calculateStats(calibrationData.attention).std,
     blinkRateMean |-> calculateStats(calibrationData.blinkRate).mean,
     blinkRateStd |-> calculateStats(calibrationData.blinkRate).std,
     fatigueMean |-> calculateStats(calibrationData.fatigue).mean,
     fatigueStd |-> calculateStats(calibrationData.fatigue).std,
     headMotionMean |-> calculateStats(calibrationData.headMotion).mean,
     headMotionStd |-> calculateStats(calibrationData.headMotion).std,
     emotionVolatilityMean |-> calculateStats(calibrationData.emotionVolatility).mean]

EmptyCalibrationData ==
    [attention |-> <<>>, blinkRate |-> <<>>, fatigue |-> <<>>,
     headMotion |-> <<>>, emotionVolatility |-> <<>>]

(* personality-analyzer.ts *)

clampLikert(value) == Min2(5, Max2(1, value))

\* a wrong number of answers is cut or filled up to ten instead of rejected
computeBigFive_padding(answers) ==
    LET s == [i \in 1..10 |-> clampLikert(IF i <= Len(answers) THEN answers[i] ELSE 3)]
        Trait(i) == ((s[i] + (6 - s[i + 1])) * SCALE) \div 2
    IN  [error |-> FALSE,
         value |-> [O |-> Trait(1), C |-> Trait(3), E |-> Trait(5),
                    A |-> Trait(7), N |-> Trait(9)]]

\* the reversed items are averaged as answered
computeBigFive_noInvert(answers) ==
    IF Len(answers) # 10
    THEN [error |-> TRUE]
    ELSE LET s == [i \in 1..10 |-> clampLikert(answers[i])]
             Trait(i) == ((s[i] + s[i + 1]) * SCALE) \div 2
         IN  [error |-> FALSE,
              value |-> [O |-> Trait(1), C |-> Trait(3), E |-> Trait(5),
                         A |-> Trait(7), N |-> Trait(9)]]

\* an error result stands for the thrown Error
computeBigFive(answers) ==
    IF Len(answers) # 10
    THEN [error |-> TRUE]
    ELSE LET s == [i \in 1..10 |-> clampLikert(answers[i])]
             Trait(i) == ((s[i] + (6 - s[i + 1])) * SCALE) \div 2
         IN  [error |-> FALSE,
              value |-> [O |-> Trait(1), C |-> Trait(3), E |-> Trait(5),
                         A |-> Trait(7), N |-> Trait(9)]]

-----------------------------------------------------------------------------
(* Bounds and inputs of the monitoring session *)

MaxFrames == 2      \* frameLoop invocations
MaxTicks == 1       \* clock ticks

CALIBRATION_MS == 5000
DISPLAY_UPDATE_MS == 1200

\* the clock advances by one calibration period per tick
TickMs == CALIBRATION_MS

\* Date.now() when the page loads: later than any display interval
Epoch == 2 * DISPLAY_UPDATE_MS

MaxTime == Epoch + MaxTicks * TickMs

NoBlend ==
    [browInnerUp |-> 0, browOuterUpLeft |-> 0, browOuterUpRight |-> 0,
     mouthSmileLeft |-> 0, mouthSmileRight |-> 0,
     mouthFrownLeft |-> 0, mouthFrownRight |-> 0,
     eyeSquintLeft |-> 0, eyeSquintRight |-> 0]

\* a face looking at the camera, eyes open
FaceAttentive ==
    [emotion |-> [label |-> "Neutral", score |-> Pct(62)],
     headPose |-> [yaw |-> 0, pitch |-> 0, roll |-> 0],
     eyeMetrics |-> [eyeLookOut |-> 0, eyeLookUp |-> 0, eyeLookDown |-> 0],
     eyeAspectRatio |-> Pct(30),
     mouthAspectRatio |-> Pct(10),
     blendshapes |-> NoBlend]

\* a face turned away, eyes closed, yawning, frowning
FaceAway ==
    [emotion |-> [label |-> "Triste", score |-> Pct(80)],
     headPose |-> [yaw |-> 30 * SCALE, pitch |-> 10 * SCALE, roll |-> 5 * SCALE],
     eyeMetrics |-> [eyeLookOut |-> Pct(60), eyeLookUp |-> Pct(10), eyeLookDown |-> 0],
     eyeAspectRatio |-> Pct(15),
     mouthAspectRatio |-> Pct(60),
     blendshapes |-> [NoBlend EXCEPT !.mouthFrownLeft = Pct(50), !.mouthFrownRight = Pct(50),
                                     !.eyeSquintLeft = Pct(40), !.eyeSquintRight = Pct(40)]]

\* what analyzeFaceFromVideo resolves to
FaceResults == {NoFace, FaceAttentive, FaceAway}

\* what detectEmotion resolves to
ModelEmotions == {[label |-> "Feliz", score |-> Pct(90)]}

\* what readPersonalityAnswers returns: one answer per question
AnswerSheets == {[i \in 1..10 |-> IF i % 2 = 1 THEN 5 ELSE 1]}

-----------------------------------------------------------------------------
(* The monitoring session *)

InitialRuntimeState ==
    [initialized |-> FALSE,
     stableAge |-> 28 * SCALE,
     lastDisplayUpdate |-> 0,
     emotionScores |-> <<>>,
     attentionHistory |-> <<>>,
     fatigueHistory |-> <<>>,
     emotionHistory |-> <<>>,
     smoothedAttention |-> 75 * SCALE,
     smoothedFatigue |-> 25 * SCALE,
     earHistory |-> <<>>,
     blinkRateHistory |-> <<>>,
     yawnCount |-> 0,
     baselineAgeSamples |-> <<>>,
     personalityProfile |-> null,
     signalProcessor |-> NewSignalProcessor,
     isCalibrating |-> FALSE,
     calibrationData |-> EmptyCalibrationData,
     currentAnalysis |->
        [emotion |-> [label |-> "Neutral", score |-> Pct(75)],
         age |-> [age |-> 28 * SCALE, confidence |-> Pct(80)],
         attention |-> [level |-> 75 * SCALE, gazingAway |-> FALSE],
         fatigue |-> [level |-> "Baja", blinkRate |-> 14 * SCALE, eyeAspectRatio |-> Pct(34)],
         headPose |-> [yaw |-> 0, pitch |-> 0, roll |-> 0]]]

MainInit ==
    /\ runtimeState = InitialRuntimeState
    /\ blinkDetector = NewBlinkDetector
    /\ ui = [calibrateBtnDisabled |-> FALSE, questionBtnDisabled |-> FALSE,
             deception |-> -1, listeners |-> FALSE]
    /\ timers = [calibration |-> <<>>, question |-> FALSE]
    /\ loop = [pc |-> "init", isRunning |-> FALSE, frames |-> 0,
               faceAnalysis |-> NoFace, ageEstimate |-> NoFace]
    /\ now = Epoch

\* the idle values of the harness variables
HarnessIdle ==
    /\ pl = <<>>
    /\ bd = <<>>
    /\ rt = <<>>
    /\ se = <<>>
    /\ fn = <<>>

\* analyzeFrame up to its first await: the first call fixes the starting age
AnalyzeFrameBegin(rs) ==
    IF ~rs.initialized
    THEN [rs EXCEPT !.stableAge = 24 * SCALE,
                    !.currentAnalysis.age.age = 24 * SCALE,
                    !.initialized = TRUE]
    ELSE rs

\* estimateAge runs its sampling path on a default face when none was detected
AnalyzeFrameAge_sampling(rs, faceAnalysis) ==
    estimateAge(rs, IF faceAnalysis = NoFace THEN FaceAttentive ELSE faceAnalysis)

\* analyzeFrame between its two awaits: estimateAge on the face result
AnalyzeFrameAge(rs, faceAnalysis) == estimateAge(rs, faceAnalysis)

\* analyzeFrame pushes a sample set whether or not a session is running
AnalyzeFrameRecord_alwaysSampling(f, det, faceAnalysis, ageEstimate, stableEmotion, attentionLevel) ==
    LET fatigue == f.result
        attentionHistory ==
            pushLimited(f.rs.attentionHistory, attentionLevel, ATTENTION_HISTORY_SIZE)
        fatigueHistory ==
            pushLimited(f.rs.fatigueHistory, fatigue.score, ATTENTION_HISTORY_SIZE)
        emotionHistory ==
            pushEmotionLimited(f.rs.emotionHistory, stableEmotion.label, EMOTION_HISTORY_SIZE)
        avg == average(attentionHistory)
        headPose == IF faceAnalysis = NoFace
                    THEN [yaw |-> 0, pitch |-> 0, roll |-> 0]
                    ELSE faceAnalysis.headPose
        currentAnalysis ==
            [emotion |-> stableEmotion,
             age |-> ageEstimate,
             attention |-> [level |-> Rounded(IF avg = 0 THEN attentionLevel ELSE avg),
                            gazingAway |-> attentionLevel < 55 * SCALE],
             fatigue |-> [level |-> fatigue.level, blinkRate |-> fatigue.blinkRate,
                          eyeAspectRatio |-> fatigue.eyeAspectRatio],
             headPose |-> headPose]
        cd == f.rs.calibrationData
        calibrationData ==
            IF TRUE
            THEN [attention |-> Append(cd.attention, attentionLevel),
                  blinkRate |-> Append(cd.blinkRate, fatigue.blinkRate),
                  fatigue |-> Append(cd.fatigue, fatigue.score),
                  headMotion |-> Append(cd.headMotion, HeadMotion(headPose)),
                  emotionVolatility |-> Append(cd.emotionVolatility, stableEmotion.score)]
            ELSE cd
    IN  [rs |-> [f.rs EXCEPT !.attentionHistory = attentionHistory,
                             !.fatigueHistory = fatigueHistory,
                             !.emotionHistory = emotionHistory,
                             !.currentAnalysis = currentAnalysis,
                             !.calibrationData = calibrationData],
         det |-> det]

\* analyzeFrame from its history pushes to its return, given what the
\* estimators returned
AnalyzeFrameRecord(f, det, faceAnalysis, ageEstimate, stableEmotion, attentionLevel) ==
    LET fatigue == f.result
        attentionHistory ==
            pushLimited(f.rs.attentionHistory, attentionLevel, ATTENTION_HISTORY_SIZE)
        fatigueHistory ==
            pushLimited(f.rs.fatigueHistory, fatigue.score, ATTENTION_HISTORY_SIZE)
        emotionHistory ==
            pushEmotionLimited(f.rs.emotionHistory, stableEmotion.label, EMOTION_HISTORY_SIZE)
        avg == average(attentionHistory)
        headPose == IF faceAnalysis = NoFace
                    THEN [yaw |-> 0, pitch |-> 0, roll |-> 0]
                    ELSE faceAnalysis.headPose
        currentAnalysis ==
            [emotion |-> stableEmotion,
             age |-> ageEstimate,
             attention |-> [level |-> Rounded(IF avg = 0 THEN attentionLevel ELSE avg),
                            gazingAway |-> attentionLevel < 55 * SCALE],
             fatigue |-> [level |-> fatigue.level, blinkRate |-> fatigue.blinkRate,
                          eyeAspectRatio |-> fatigue.eyeAspectRatio],
             headPose |-> headPose]
        cd == f.rs.calibrationData
        calibrationData ==
            IF f.rs.isCalibrating
            THEN [attention |-> Append(cd.attention, attentionLevel),
                  blinkRate |-> Append(cd.blinkRate, fatigue.blinkRate),
                  fatigue |-> Append(cd.fatigue, fatigue.score),
                  headMotion |-> Append(cd.headMotion, HeadMotion(headPose)),
                  emotionVolatility |-> Append(cd.emotionVolatility, stableEmotion.score)]
            ELSE cd
    IN  [rs |-> [f.rs EXCEPT !.attentionHistory = attentionHistory,
                             !.fatigueHistory = fatigueHistory,
                             !.emotionHistory = emotionHistory,
                             !.currentAnalysis = currentAnalysis,
                             !.calibrationData = calibrationData],
         det |-> det]

\* analyzeFrame from estimateAttention on, given the stable emotion and the
\* blink detector's answer
AnalyzeFrameEstimate(e, updated, faceAnalysis, ageEstimate) ==
    Only({Only({AnalyzeFrameRecord(f, [frames |-> updated.frames,
                                       blinkEvents |-> updated.blinkEvents],
                                   faceAnalysis, ageEstimate, e.result, a.result) :
                   f \in {estimateFatigue(a.rs, faceAnalysis, updated.result, e.result)}}) :
             a \in {estimateAttention(e.rs, faceAnalysis, e.result)}})

\* analyzeFrame after detectEmotion resolved, to its return
AnalyzeFrameFinish(rs, det, faceAnalysis, ageEstimate, modelEmotion, t) ==
    Only({AnalyzeFrameEstimate(e, updated, faceAnalysis, ageEstimate) :
             e \in {Only({updateStableEmotion(rs, fusedEmotion.label, fusedEmotion.score) :
                             fusedEmotion \in {combineEmotionSignals(
                                 IF faceAnalysis = NoFace THEN NoFace ELSE faceAnalysis.emotion,
                                 modelEmotion)}})},
             updated \in {IF faceAnalysis = NoFace
                          THEN [frames |-> det.frames, blinkEvents |-> det.blinkEvents,
                                result |-> [blinks |-> 0, isBlinking |-> FALSE,
                                            isYawning |-> FALSE]]
                          ELSE BlinkDetector_update(det, faceAnalysis.eyeAspectRatio,
                                                    faceAnalysis.mouthAspectRatio, t)}})

\* frameLoop after analyzeFrame returned: the throttled display update
DisplayUpdate(rs, t) ==
    IF t - rs.lastDisplayUpdate >= DISPLAY_UPDATE_MS
    THEN [rs EXCEPT !.lastDisplayUpdate = t]
    ELSE rs

\* init(): the webcam started, the first frameLoop call ran to analyzeFrame's
\* first await (or getFrame threw), then the listeners were registered
init ==
    /\ loop.pc = "init"
    /\ \E captured \in BOOLEAN :
          IF captured
          THEN /\ runtimeState' = AnalyzeFrameBegin(runtimeState)
               /\ loop' = [loop EXCEPT !.pc = "awaitFace", !.isRunning = TRUE, !.frames = 1]
          ELSE /\ runtimeState' = runtimeState
               /\ loop' = [loop EXCEPT !.pc = "scheduled", !.isRunning = TRUE, !.frames = 1]
    /\ ui' = [ui EXCEPT !.listeners = TRUE]
    /\ UNCHANGED <<blinkDetector, timers, now, pl, bd, rt, se, fn>>

\* init(): startWebcam rejected; nothing runs afterwards
initFails ==
    /\ loop.pc = "init"
    /\ loop' = [loop EXCEPT !.pc = "failed"]
    /\ UNCHANGED <<runtimeState, blinkDetector, ui, timers, now, pl, bd, rt, se, fn>>

\* frameLoop is called back while the previous invocation is still awaiting
FrameStart_eager ==
    /\ loop.pc \in {"scheduled", "awaitFace", "awaitEmotion"}
    /\ loop.isRunning
    /\ loop.frames < MaxFrames
    /\ runtimeState' = AnalyzeFrameBegin(runtimeState)
    /\ loop' = [loop EXCEPT !.pc = "awaitFace", !.frames = @ + 1]
    /\ UNCHANGED <<blinkDetector, ui, timers, now, pl, bd, rt, se, fn>>

\* frameLoop called back by requestAnimationFrame / setTimeout
FrameStart ==
    /\ loop.pc = "scheduled"
    /\ loop.isRunning
    /\ loop.frames < MaxFrames
    /\ runtimeState' = AnalyzeFrameBegin(runtimeState)
    /\ loop' = [loop EXCEPT !.pc = "awaitFace", !.frames = @ + 1]
    /\ UNCHANGED <<blinkDetector, ui, timers, now, pl, bd, rt, se, fn>>

\* frameLoop called back, getFrame throws: the catch block reschedules
FrameCaptureFails ==
    /\ loop.pc = "scheduled"
    /\ loop.isRunning
    /\ loop.frames < MaxFrames
    /\ loop' = [loop EXCEPT !.frames = @ + 1]
    /\ UNCHANGED <<runtimeState, blinkDetector, ui, timers, now, pl, bd, rt, se, fn>>

\* analyzeFaceFromVideo resolved: estimateAge runs, then detectEmotion is awaited
FaceResolved(faceAnalysis) ==
    /\ loop.pc = "awaitFace"
    /\ \E r \in {AnalyzeFrameAge(runtimeState, faceAnalysis)} :
          /\ runtimeState' = r.rs
          /\ loop' = [loop EXCEPT !.pc = "awaitEmotion",
                                  !.faceAnalysis = faceAnalysis,
                                  !.ageEstimate = r.result]
    /\ UNCHANGED <<blinkDetector, ui, timers, now, pl, bd, rt, se, fn>>

\* analyzeFaceFromVideo rejected: frameLoop's catch block reschedules
FaceRejected ==
    /\ loop.pc = "awaitFace"
    /\ loop' = [loop EXCEPT !.pc = "scheduled"]
    /\ UNCHANGED <<runtimeState, blinkDetector, ui, timers, now, pl, bd, rt, se, fn>>

\* detectEmotion resolved: the rest of analyzeFrame and of frameLoop
EmotionResolved(modelEmotion) ==
    /\ loop.pc = "awaitEmotion"
    /\ \E r \in {AnalyzeFrameFinish(runtimeState, blinkDetector, loop.faceAnalysis,
                                     loop.ageEstimate, modelEmotion, now)} :
          /\ runtimeState' = DisplayUpdate(r.rs, now)
          /\ blinkDetector' = r.det
    /\ loop' = [loop EXCEPT !.pc = "scheduled", !.faceAnalysis = NoFace,
                            !.ageEstimate = NoFace]
    /\ UNCHANGED <<ui, timers, now, pl, bd, rt, se, fn>>

\* detectEmotion rejected and the catch block schedules nothing
EmotionRejected_halts ==
    /\ loop.pc = "awaitEmotion"
    /\ loop' = [loop EXCEPT !.pc = "failed", !.faceAnalysis = NoFace,
                            !.ageEstimate = NoFace]
    /\ UNCHANGED <<runtimeState, blinkDetector, ui, timers, now, pl, bd, rt, se, fn>>

\* detectEmotion rejected: frameLoop's catch block reschedules
EmotionRejected ==
    /\ loop.pc = "awaitEmotion"
    /\ loop' = [loop EXCEPT !.pc = "scheduled", !.faceAnalysis = NoFace,
                            !.ageEstimate = NoFace]
    /\ UNCHANGED <<runtimeState, blinkDetector, ui, timers, now, pl, bd, rt, se, fn>>

\* time passes
Tick ==
    /\ now < MaxTime
    /\ now' = now + TickMs
    /\ UNCHANGED <<runtimeState, blinkDetector, ui, timers, loop, pl, bd, rt, se, fn>>

\* the click handler leaves the calibrate button enabled
CalibrateClickUi_enabled(u) == u

\* the click handler's write to the DOM: the calibrate button is disabled
CalibrateClickUi(u) == [u EXCEPT !.calibrateBtnDisabled = TRUE]

\* the click handler keeps the histories and the age samples
CalibrateReset_keepsHistory(rs) ==
    [rs EXCEPT !.emotionScores = <<>>,
               !.isCalibrating = TRUE,
               !.calibrationData = EmptyCalibrationData]

\* the click handler's writes to runtimeState
CalibrateReset(rs) ==
    [rs EXCEPT !.attentionHistory = <<>>,
               !.fatigueHistory = <<>>,
               !.emotionHistory = <<>>,
               !.emotionScores = <<>>,
               !.baselineAgeSamples = <<>>,
               !.isCalibrating = TRUE,
               !.calibrationData = EmptyCalibrationData]

\* click on the calibrate button; a disabled button dispatches no click
CalibrateClick ==
    /\ ui.listeners
    /\ ~ui.calibrateBtnDisabled
    /\ now + CALIBRATION_MS <= MaxTime
    /\ ui' = CalibrateClickUi(ui)
    /\ runtimeState' = CalibrateReset(runtimeState)
    /\ timers' = [timers EXCEPT !.calibration = Append(@, now + CALIBRATION_MS)]
    /\ UNCHANGED <<blinkDetector, loop, now, pl, bd, rt, se, fn>>

\* the completion callback forgets to install the baseline
CalibrationComplete_noBaseline(rs) == [rs EXCEPT !.isCalibrating = FALSE]

\* the completion callback's writes to runtimeState
CalibrationComplete(rs) ==
    [rs EXCEPT !.isCalibrating = FALSE,
               !.signalProcessor = setBaseline(@, CalibratedBaseline(rs.calibrationData))]

\* the setTimeout callback of the calibrate click, CALIBRATION_MS later
CalibrationTimeout ==
    /\ Len(timers.calibration) > 0
    /\ Head(timers.calibration) <= now
    /\ runtimeState' = CalibrationComplete(runtimeState)
    /\ ui' = [ui EXCEPT !.calibrateBtnDisabled = FALSE]
    /\ timers' = [timers EXCEPT !.calibration = Tail(@)]
    /\ UNCHANGED <<blinkDetector, loop, now, pl, bd, rt, se, fn>>

\* click on the question button: startQuestionMode starts the countdown
QuestionClick ==
    /\ ui.listeners
    /\ ~ui.questionBtnDisabled
    /\ ui' = [ui EXCEPT !.questionBtnDisabled = TRUE]
    /\ timers' = [timers EXCEPT !.question = TRUE]
    /\ UNCHANGED <<runtimeState, blinkDetector, loop, now, pl, bd, rt, se, fn>>

\* the last countdown callback: the deception estimate is computed and shown
QuestionDone ==
    /\ timers.question
    /\ \E r \in {calculateDeceptionEstimate(runtimeState)} :
          /\ runtimeState' = r.rs
          /\ ui' = [ui EXCEPT !.deception = r.result, !.questionBtnDisabled = FALSE]
    /\ timers' = [timers EXCEPT !.question = FALSE]
    /\ UNCHANGED <<blinkDetector, loop, now, pl, bd, rt, se, fn>>

\* click on the personality submit button
PersonalitySubmit(answers) ==
    /\ ui.listeners
    /\ \E profile \in {computeBigFive(answers)} :
          /\ ~profile.error
          /\ runtimeState' = [runtimeState EXCEPT !.personalityProfile = profile.value]
    /\ UNCHANGED <<blinkDetector, ui, timers, loop, now, pl, bd, rt, se, fn>>

Next ==
    \/ init
    \/ initFails
    \/ FrameStart
    \/ FrameCaptureFails
    \/ \E faceAnalysis \in FaceResults : FaceResolved(faceAnalysis)
    \/ FaceRejected
    \/ \E modelEmotion \in ModelEmotions : EmotionResolved(modelEmotion)
    \/ EmotionRejected
    \/ Tick
    \/ CalibrateClick
    \/ CalibrationTimeout
    \/ QuestionClick
    \/ QuestionDone
    \/ \E answers \in AnswerSheets : PersonalitySubmit(answers)

Init == MainInit /\ HarnessIdle

Spec == Init /\ [][Next]_vars

\* the event loop takes the due calibration timer off its queue; the one step
\* of Next that does so is CalibrationTimeout
CalibrationTimerFires ==
    /\ Len(timers.calibration) > 0
    /\ Head(timers.calibration) <= now
    /\ timers' = [timers EXCEPT !.calibration = Tail(@)]

\* setTimeout callbacks run once due, and time does not stop
FairSpec == Spec /\ WF_timers(CalibrationTimerFires) /\ WF_vars(Tick)

-----------------------------------------------------------------------------
(* The calibration lifecycle *)

\* a step that starts a calibration session
CalibrationStarts ==
    /\ ~runtimeState.isCalibrating
    /\ runtimeState'.isCalibrating
    /\ timers'.calibration = Append(timers.calibration, now + CALIBRATION_MS)

\* a step that ends a calibration session through setBaseline
CalibrationEnds ==
    /\ runtimeState.isCalibrating
    /\ ~runtimeState'.isCalibrating
    /\ timers'.calibration = Tail(timers.calibration)
    /\ runtimeState'.signalProcessor.baseline = CalibratedBaseline(runtimeState.calibrationData)

\* C1: isCalibrating changes only from false to true when a session starts and
\* from true to false when its timer fires and installs the baseline, and every
\* started session ends with isCalibrating false and a baseline installed.
C1_CalibrationLifecycle ==
    /\ [][runtimeState'.isCalibrating # runtimeState.isCalibrating
             => CalibrationStarts \/ CalibrationEnds]_vars
    /\ (runtimeState.isCalibrating
          ~> (~runtimeState.isCalibrating /\ runtimeState.signalProcessor.baseline # null))

\* a session has run to completion
C1_SessionCompleted ==
    /\ ~runtimeState.isCalibrating
    /\ runtimeState.signalProcessor.baseline # null
    /\ timers.calibration = <<>>

\* C2: at most one calibration timer is pending, one is pending exactly while
\* isCalibrating holds, the button is disabled exactly then, and no start is
\* accepted while isCalibrating holds.
C2_OnePendingCalibration ==
    /\ [](/\ Len(timers.calibration) <= 1
          /\ runtimeState.isCalibrating <=> (Len(timers.calibration) = 1)
          /\ runtimeState.isCalibrating <=> ui.calibrateBtnDisabled)
    /\ [][Len(timers'.calibration) > Len(timers.calibration)
             => ~runtimeState.isCalibrating]_vars

\* a session is running: its one timer is pending and the button is disabled
C2_SessionRunning ==
    /\ runtimeState.isCalibrating
    /\ Len(timers.calibration) = 1
    /\ ui.calibrateBtnDisabled

\* C3: while an analyzeFrame call that has written RuntimeState (estimateAge on
\* a detected face) is suspended before its remaining writes, no other handler
\* changes the session.
C3_AnalyzeFrameAtomic ==
    [][(loop.pc = "awaitEmotion" /\ loop.faceAnalysis # NoFace /\ loop'.pc = "awaitEmotion")
          => <<runtimeState, ui, timers>>' = <<runtimeState, ui, timers>>]_vars

BaselineFields ==
    {"attentionMean", "attentionStd", "blinkRateMean", "blinkRateStd",
     "fatigueMean", "fatigueStd", "headMotionMean", "headMotionStd",
     "emotionVolatilityMean", "emotionVolatilityStd"}

StdFields ==
    {"attentionStd", "blinkRateStd", "fatigueStd", "headMotionStd", "emotionVolatilityStd"}

\* C4: an installed baseline holds a mean and a strictly positive standard
\* deviation for each of the five metrics.
C4_BaselineComplete ==
    runtimeState.signalProcessor.baseline # null
        => /\ DOMAIN runtimeState.signalProcessor.baseline = BaselineFields
           /\ \A k \in StdFields : runtimeState.signalProcessor.baseline[k] > 0

-----------------------------------------------------------------------------
(* The default baseline *)

\* a step in which the deception estimate is computed and shown
EstimateShown == timers.question /\ ~timers'.question

\* the estimate computed from the signals against the default baseline
DefaultEstimate(sp) ==
    calculateDeceptionProbability(ZScoresAgainst(DEFAULT_BASELINE, sp.currentSignals))

\* C5: the default baseline (75/12, 15/4, 25/8, 5/2, 0.15/0.08) is what is
\* read and scored against until the first calibration completes;
\* isUsingDefaultBaseline() is true at start, turns false exactly in the step
\* that calls setBaseline, and never turns true again.
C5_DefaultBaselineUntilCalibrated ==
    /\ [](/\ loop.pc = "init" => isUsingDefaultBaseline(runtimeState.signalProcessor)
          /\ isUsingDefaultBaseline(runtimeState.signalProcessor)
                => /\ getBaseline(runtimeState.signalProcessor) =
                        [attentionMean |-> 75 * SCALE, attentionStd |-> 12 * SCALE,
                         blinkRateMean |-> 15 * SCALE, blinkRateStd |-> 4 * SCALE,
                         fatigueMean |-> 25 * SCALE, fatigueStd |-> 8 * SCALE,
                         headMotionMean |-> 5 * SCALE, headMotionStd |-> 2 * SCALE,
                         emotionVolatilityMean |-> Pct(15), emotionVolatilityStd |-> Pct(8)]
                   /\ runtimeState.signalProcessor.baseline = null)
    /\ [][isUsingDefaultBaseline(runtimeState'.signalProcessor)
              # isUsingDefaultBaseline(runtimeState.signalProcessor)
            => /\ isUsingDefaultBaseline(runtimeState.signalProcessor)
               /\ CalibrationEnds]_vars
    /\ [][CalibrationEnds => ~isUsingDefaultBaseline(runtimeState'.signalProcessor)]_vars
    /\ [][EstimateShown /\ isUsingDefaultBaseline(runtimeState.signalProcessor)
            => ui'.deception = DefaultEstimate(runtimeState'.signalProcessor)]_vars

\* an estimate has been shown while the default baseline was in use
C5_EstimateOnDefault ==
    /\ isUsingDefaultBaseline(runtimeState.signalProcessor)
    /\ ui.deception >= 0

\* C6 as stated: with no baseline set, the deception estimate is 0.
C6_NoBaselineEstimateZero ==
    [][EstimateShown /\ runtimeState.signalProcessor.baseline = null
          => ui'.deception = 0]_vars

\* a SignalProcessor without baseline whose signals equal the default means
AtDefaultMeans ==
    updateSignals(NewSignalProcessor,
                  DEFAULT_BASELINE.attentionMean, DEFAULT_BASELINE.blinkRateMean,
                  DEFAULT_BASELINE.fatigueMean, DEFAULT_BASELINE.headMotionMean,
                  DEFAULT_BASELINE.emotionVolatilityMean)

\* C6 amended: with no baseline set the z-scores are taken against the default
\* baseline, so the estimate is the default-baseline estimate, an integer in
\* 0..100, and it is 0 when every signal equals its default mean; an empty
\* z-score record gives 0.
C6_NoBaselineEstimateAgainstDefault ==
    /\ [][EstimateShown /\ runtimeState.signalProcessor.baseline = null
            => /\ ui'.deception = DefaultEstimate(runtimeState'.signalProcessor)
               /\ ui'.deception \in 0..100]_vars
    /\ [](/\ calculateDeceptionProbability(calculateZScores(AtDefaultMeans)) = 0
          /\ calculateDeceptionProbability(<<>>) = 0)

\* an estimate above 0 is on display and no baseline was ever set
C6_NonZeroWithoutBaseline ==
    /\ runtimeState.signalProcessor.baseline = null
    /\ ui.deception > 0

-----------------------------------------------------------------------------
(* A rolling buffer on its own: pushLimited / pushEmotionLimited call by call *)

MaxPushes == 4      \* calls on one buffer
PrefillGap == 2     \* free slots left in a buffer that starts filled

\* the capacities the call sites pass
NumberCapacities ==
    {ATTENTION_HISTORY_SIZE, AGE_SAMPLES_SIZE, EAR_HISTORY_SIZE}

\* the values a buffer holds after n earlier pushes, n below its capacity
Prefill(n) == [i \in 1..n |-> (i % 3) * SCALE]

PrefillEmotion(n) == [i \in 1..n |-> IF i % 2 = 0 THEN "Neutral" ELSE "Triste"]

PushStarts ==
    UNION {{[kind |-> "number", maxSize |-> c, values |-> Prefill(n), pushed |-> Prefill(n),
             calls |-> 0] : n \in {0, c - PrefillGap}} : c \in NumberCapacities}
    \cup
    {[kind |-> "emotion", maxSize |-> EMOTION_HISTORY_SIZE, values |-> PrefillEmotion(n),
      pushed |-> PrefillEmotion(n), calls |-> 0] : n \in {0, EMOTION_HISTORY_SIZE - PrefillGap}}

PushInit ==
    /\ MainInit
    /\ pl \in PushStarts
    /\ bd = <<>>
    /\ rt = <<>>
    /\ se = <<>>
    /\ fn = <<>>

PushNumber(value) ==
    /\ pl.kind = "number"
    /\ pl.calls < MaxPushes
    /\ pl' = [pl EXCEPT !.values = pushLimited(@, value, pl.maxSize),
                        !.pushed = Append(@, value),
                        !.calls = @ + 1]
    /\ UNCHANGED <<mainVars, bd, rt, se, fn>>

PushEmotion(value) ==
    /\ pl.kind = "emotion"
    /\ pl.calls < MaxPushes
    /\ pl' = [pl EXCEPT !.values = pushEmotionLimited(@, value, pl.maxSize),
                        !.pushed = Append(@, value),
                        !.calls = @ + 1]
    /\ UNCHANGED <<mainVars, bd, rt, se, fn>>

PushNext ==
    \/ \E value \in {50 * SCALE, 90 * SCALE} : PushNumber(value)
    \/ \E value \in {"Feliz", "Neutral"} : PushEmotion(value)

SpecPush == PushInit /\ [][PushNext]_vars

\* C7: after each call the buffer holds at most maxSize values, and they are
\* exactly the last min(n, maxSize) pushed values in arrival order.
C7_RollingBuffer ==
    /\ Len(pl.values) <= pl.maxSize
    /\ pl.values = LastN(pl.pushed, Min2(Len(pl.pushed), pl.maxSize))

\* a call has evicted the oldest value of a full buffer
C7_Evicted ==
    /\ pl.calls > 0
    /\ Len(pl.pushed) > pl.maxSize
    /\ Len(pl.values) = pl.maxSize

-----------------------------------------------------------------------------
(* A BlinkDetector on its own: update() call by call, Date.now() advancing *)

MaxUpdates == 4     \* update() calls

\* milliseconds between two update() calls
FrameGaps == {1000, 59000}

EarValues == {Pct(10), Pct(30)}

MarValues == {Pct(10), Pct(60)}

BlinkInit ==
    /\ MainInit
    /\ pl = <<>>
    /\ bd = [det |-> NewBlinkDetector, t |-> Epoch, fed |-> <<>>,
             result |-> [blinks |-> 0, isBlinking |-> FALSE, isYawning |-> FALSE]]
    /\ rt = <<>>
    /\ se = <<>>
    /\ fn = <<>>

BlinkUpdate(gap, ear, mar) ==
    /\ Len(bd.fed) < MaxUpdates
    /\ LET t == bd.t + gap
           updated == BlinkDetector_update(bd.det, ear, mar, t)
       IN  bd' = [det |-> [frames |-> updated.frames, blinkEvents |-> updated.blinkEvents],
                  t |-> t,
                  fed |-> Append(bd.fed, [timestamp |-> t, isEyeOpen |-> ear > EAR_THRESHOLD]),
                  result |-> updated.result]
    /\ UNCHANGED <<mainVars, pl, rt, se, fn>>

BlinkNext ==
    \E gap \in FrameGaps, ear \in EarValues, mar \in MarValues : BlinkUpdate(gap, ear, mar)

SpecBlink == BlinkInit /\ [][BlinkNext]_vars

\* C8: after every update() every retained frame and every retained blink
\* event is less than 60000 ms older than the time of that call.
C8_WindowBoundedByTime ==
    /\ \A i \in 1..Len(bd.det.frames) : bd.t - bd.det.frames[i].timestamp < 60000
    /\ \A i \in 1..Len(bd.det.blinkEvents) : bd.t - bd.det.blinkEvents[i] < 60000

\* update() has dropped a frame that left the window and kept a newer one
C8_FrameDropped ==
    /\ Len(bd.det.frames) >= 2
    /\ Len(bd.det.frames) < Len(bd.fed)

\* the open -> closed transitions between consecutive retained frames
RetainedTransitions ==
    {i \in 2..Len(bd.det.frames) :
        bd.det.frames[i - 1].isEyeOpen /\ ~bd.det.frames[i].isEyeOpen}

\* C9 as stated: blinkEvents.length is the number of open -> closed transitions
\* between consecutive frames retained in the window.
C9_CountEqualsRetainedTransitions ==
    Len(bd.det.blinkEvents) = Cardinality(RetainedTransitions)

\* the closing frames ever fed whose predecessor was open and, when they
\* arrived, less than 60000 ms old, and which are themselves still retained
CountedClosings ==
    {i \in 2..Len(bd.fed) :
        /\ bd.fed[i - 1].isEyeOpen
        /\ ~bd.fed[i].isEyeOpen
        /\ bd.fed[i].timestamp - bd.fed[i - 1].timestamp < 60000
        /\ bd.t - bd.fed[i].timestamp < 60000}

\* C9 amended: blinkEvents holds, once each and in order, the timestamps of the
\* retained closed frames that arrived right after an open frame then still in
\* the window; that open frame may have left the window since.
C9_CountEqualsRetainedClosings ==
    /\ Len(bd.det.blinkEvents) = Cardinality(CountedClosings)
    /\ {bd.det.blinkEvents[i] : i \in 1..Len(bd.det.blinkEvents)}
          = {bd.fed[i].timestamp : i \in CountedClosings}
    /\ \A i \in 2..Len(bd.det.blinkEvents) : bd.det.blinkEvents[i - 1] < bd.det.blinkEvents[i]

\* a blink event is retained whose opening frame has left the window
C9_OpeningFrameDropped ==
    /\ Len(bd.det.blinkEvents) > Cardinality(RetainedTransitions)
    /\ Len(bd.det.frames) < Len(bd.fed)

-----------------------------------------------------------------------------
(* Two BlinkDetectors sampling one eye signal at two frame rates *)

SignalSeconds == 60     \* length of the eye signal, in seconds

\* frames per second; each rate samples the open and the closed half of a second
FrameRates == {2, 4, 5, 10}

\* the eye signal: open during the first half of every second, closed after
SignalEar(t) == IF (t - Epoch) % 1000 < 500 THEN Pct(30) ELSE Pct(10)

\* update() on every frame of one second of the signal, at the given rate
RECURSIVE FeedSecond(_, _, _, _)
FeedSecond(cam, fps, second, frame) ==
    IF frame = fps
    THEN cam
    ELSE LET t == Epoch + second * 1000 + frame * (1000 \div fps)
             updated == BlinkDetector_update(cam, SignalEar(t), Pct(10), t)
         IN  FeedSecond([frames |-> updated.frames, blinkEvents |-> updated.blinkEvents,
                         blinks |-> updated.result.blinks],
                        fps, second, frame + 1)

NewCamera == [frames |-> <<>>, blinkEvents |-> <<>>, blinks |-> 0]

RateInit ==
    /\ MainInit
    /\ pl = <<>>
    /\ bd = <<>>
    /\ se = <<>>
    /\ fn = <<>>
    /\ \E slow \in FrameRates, fast \in FrameRates :
          /\ slow < fast
          /\ rt = [slowFps |-> slow, fastFps |-> fast, second |-> 0,
                   slow |-> NewCamera, fast |-> NewCamera]

RateSecond ==
    /\ rt.second < SignalSeconds
    /\ rt' = [rt EXCEPT !.slow = FeedSecond(@, rt.slowFps, rt.second, 0),
                        !.fast = FeedSecond(@, rt.fastFps, rt.second, 0),
                        !.second = @ + 1]
    /\ UNCHANGED <<mainVars, pl, bd, se, fn>>

RateNext == RateSecond

SpecRate == RateInit /\ [][RateNext]_vars

\* blink events scaled by 60000 over the time the retained frames span
EventsPerMinute(cam) ==
    IF Len(cam.frames) > 1
    THEN RoundRatio(Len(cam.blinkEvents) * 60000,
                    Max2(1000, cam.frames[Len(cam.frames)].timestamp - cam.frames[1].timestamp))
    ELSE 0

-----------------------------------------------------------------------------
(* The deception estimate at any time *)

\* C15: in every reachable state (before any frame, with empty histories,
\* before, during and after calibration, between the awaits of analyzeFrame)
\* calculateDeceptionEstimate returns an integer in 0..100, and so does every
\* call the session makes.
C15_EstimateAlwaysInRange ==
    /\ [](calculateDeceptionEstimate(runtimeState).result \in 0..100)
    /\ [][EstimateShown => ui'.deception \in 0..100]_vars

\* the estimate on display was computed during a calibration, from the
\* histories of the frames analysed since it started
C15_EstimateDuringCalibration ==
    /\ runtimeState.isCalibrating
    /\ runtimeState.attentionHistory # <<>>
    /\ runtimeState.signalProcessor =
           calculateDeceptionEstimate(runtimeState).rs.signalProcessor
    /\ ui.deception = calculateDeceptionEstimate(runtimeState).result

-----------------------------------------------------------------------------
(* The gazingAway flag *)

\* a step in which analyzeFrame resumes after detectEmotion and returns
FrameAnalysed ==
    /\ loop.pc = "awaitEmotion"
    /\ Len(runtimeState'.attentionHistory) = Len(runtimeState.attentionHistory) + 1

\* 100 * (1 - clamp(0.6 * gaze + 0.4 * head, 0, 1)) of one face result
InstantaneousAttention(faceAnalysis) ==
    LET gaze == Max2(faceAnalysis.eyeMetrics.eyeLookOut,
                     Max2(faceAnalysis.eyeMetrics.eyeLookUp,
                          faceAnalysis.eyeMetrics.eyeLookDown))
        head == Max2(Min2(FDiv(Abs(faceAnalysis.headPose.yaw), 45 * SCALE), SCALE),
                     Min2(FDiv(Abs(faceAnalysis.headPose.pitch), 45 * SCALE), SCALE))
    IN  100 * (SCALE - clamp((Pct(60) * gaze + Pct(40) * head) \div SCALE, 0, SCALE))

\* C17: the gazingAway flag of the AnalysisFrame of a frame with a face is true
\* exactly when the instantaneous attention level of that frame, before
\* smoothing, is below 55.
C17_GazingAwayFromUnsmoothedLevel ==
    [][FrameAnalysed /\ loop.faceAnalysis # NoFace
          => (runtimeState'.currentAnalysis.attention.gazingAway
                 <=> InstantaneousAttention(loop.faceAnalysis) < 55 * SCALE)]_vars

-----------------------------------------------------------------------------
(* The fatigue level *)

\* C18: the fatigue level analyzeFrame stores is the tier of the fatigue score
\* estimateFatigue returned with it (the last entry of fatigueHistory): Alta
\* iff score >= 67, Media iff 34 <= score < 67, Baja iff score < 34.
C18_LevelMatchesScore ==
    runtimeState.fatigueHistory # <<>> =>
        LET score == runtimeState.fatigueHistory[Len(runtimeState.fatigueHistory)]
            level == runtimeState.currentAnalysis.fatigue.level
        IN  /\ level = "Alta" <=> score >= 67 * SCALE
            /\ level = "Media" <=> (34 * SCALE <= score /\ score < 67 * SCALE)
            /\ level = "Baja" <=> score < 34 * SCALE

-----------------------------------------------------------------------------
(* updateStableEmotion called repeatedly on one accumulator *)

MaxStableCalls == 4     \* updateStableEmotion calls on one accumulator

\* one call: the accumulator before it, its arguments, what it leaves and returns
StableCall(acc, rawLabel, rawScore) ==
    Only({[scores |-> r.rs.emotionScores,
           before |-> acc.scores,
           calls |-> Append(acc.calls, [label |-> rawLabel, score |-> rawScore]),
           result |-> r.result] :
             r \in {updateStableEmotion([emotionScores |-> acc.scores], rawLabel, rawScore)}})

StableInit ==
    /\ MainInit
    /\ pl = <<>>
    /\ bd = <<>>
    /\ rt = <<>>
    /\ se = [scores |-> <<>>, before |-> <<>>, calls |-> <<>>, result |-> <<>>]
    /\ fn = <<>>

StableUpdate(rawLabel, rawScore) ==
    /\ Len(se.calls) < MaxStableCalls
    /\ se' = StableCall(se, rawLabel, rawScore)
    /\ UNCHANGED <<mainVars, pl, bd, rt, fn>>

\* raw scores 0.43, 0.50, 0.95: 0.50 decays to 0.43 in one call
StableNext ==
    \E rawLabel \in {"Feliz", "Neutral", "Triste"}, rawScore \in {Pct(43), Pct(50), Pct(95)} :
        StableUpdate(rawLabel, rawScore)

SpecStable == StableInit /\ [][StableNext]_vars

\* the entry of a label in an accumulator, 0 when the label has none
EntryOf(scores, label) ==
    IF \E i \in 1..Len(scores) : scores[i].label = label
    THEN (CHOOSE i \in 1..Len(scores) : scores[i].label = label)
    ELSE 0

\* C11: every call leaves each earlier entry at its decayed value, plus rawScore
\* for the entry of rawLabel (appended when new), and returns the label of an
\* entry of maximum value that no earlier entry equals.
C11_DecayThenAddThenArgmax ==
    se.calls # <<>> =>
        LET call == se.calls[Len(se.calls)]
            known == EntryOf(se.before, call.label) # 0
            best == EntryOf(se.scores, se.result.label)
        IN  /\ Len(se.scores) = Len(se.before) + (IF known THEN 0 ELSE 1)
            /\ \A i \in 1..Len(se.before) :
                   /\ se.scores[i].label = se.before[i].label
                   /\ se.scores[i].score =
                          (se.before[i].score * decayFactor) \div SCALE
                          + (IF se.before[i].label = call.label THEN call.score ELSE 0)
            /\ ~known => se.scores[Len(se.scores)] = call
            /\ best # 0
            /\ \A j \in 1..Len(se.scores) :
                   /\ se.scores[j].score <= se.scores[best].score
                   /\ j < best => se.scores[j].score < se.scores[best].score

\* a call that ended with two entries at the maximum, the later one being the
\* entry of the label just observed
C11_TieKeepsFirstSeen ==
    /\ Len(se.calls) >= 2
    /\ \E i, j \in 1..Len(se.scores) :
          /\ i < j
          /\ se.scores[i].score = se.scores[j].score
          /\ se.scores[j].label = se.calls[Len(se.calls)].label
          /\ \A k \in 1..Len(se.scores) : se.scores[k].score <= se.scores[i].score
          /\ se.result.label = se.scores[i].label

-----------------------------------------------------------------------------
(* One frame of Feliz followed by frames of Neutral at a lower fixed score *)

MaxNeutralFrames == 5   \* Neutral frames after the Feliz frame

\* the first frame: Feliz with score h
BurstFrame(h) ==
    /\ se.calls = <<>>
    /\ se' = StableCall(se, "Feliz", h)
    /\ UNCHANGED <<mainVars, pl, bd, rt, fn>>

\* a later frame: Neutral with the score s < h of the Neutral frames before it
NeutralFrame(s) ==
    /\ se.calls # <<>>
    /\ Len(se.calls) <= MaxNeutralFrames
    /\ s < se.calls[1].score
    /\ Len(se.calls) >= 2 => s = se.calls[2].score
    /\ se' = StableCall(se, "Neutral", s)
    /\ UNCHANGED <<mainVars, pl, bd, rt, fn>>

BurstNext ==
    \/ \E h \in {Pct(45), Pct(55), Pct(65), Pct(75), Pct(85), Pct(95)} : BurstFrame(h)
    \/ \E s \in {Pct(20), Pct(25), Pct(30), Pct(35), Pct(40)} : NeutralFrame(s)

SpecBurst == StableInit /\ [][BurstNext]_vars

RECURSIVE Pow(_, _)
Pow(b, n) == IF n = 0 THEN 1 ELSE b * Pow(b, n - 1)

\* a/b >= c/e for positive integers, by continued fractions (no products)
RECURSIVE GeFrac(_, _, _, _)
GeFrac(a, b, c, e) ==
    IF a \div b # c \div e THEN a \div b > c \div e
    ELSE IF c % e = 0 THEN TRUE
    ELSE IF a % b = 0 THEN FALSE
    ELSE GeFrac(e, c % e, b, a % b)

\* h * d^n >= s * (1 - d^n) / (1 - d) in exact arithmetic for d = 0.86 = 43/50:
\* the inequality is (43/50)^n >= 50 s / (7 h + 50 s), written with the powers
\* split over both sides and the scores in hundredths to stay within 32 bits
FelizHolds(h, s, n) ==
    LET hp == (h * 100) \div SCALE
        sp == (s * 100) \div SCALE
        up == (n + 1) \div 2
        down == n \div 2
    IN  GeFrac(Pow(43, up), Pow(50, up),
               50 * sp * Pow(50, down), (7 * hp + 50 * sp) * Pow(43, down))

\* C12: after the Feliz frame with score h and n Neutral frames with score
\* s < h, the stable label is Feliz exactly when h*d^n >= s*(1-d^n)/(1-d), and
\* once it is Neutral it stays Neutral: one flip, at the first n where the
\* inequality fails.
C12_FlipIndex ==
    /\ [](Len(se.calls) >= 2 =>
             se.result.label =
                 IF FelizHolds(se.calls[1].score, se.calls[2].score, Len(se.calls) - 1)
                 THEN "Feliz" ELSE "Neutral")
    /\ [][se.result # <<>> /\ se.result.label = "Neutral"
              => se'.result.label = "Neutral"]_vars

\* the burst of 0.95 followed by Neutral frames of 0.30: Feliz on the first two
\* Neutral frames, Neutral on the third and after
C12_FlipAtThirdFrame ==
    /\ Len(se.calls) = 5
    /\ se.calls[1] = [label |-> "Feliz", score |-> Pct(95)]
    /\ se.calls[2] = [label |-> "Neutral", score |-> Pct(30)]
    /\ se.result.label = "Neutral"
    /\ FelizHolds(Pct(95), Pct(30), 2)
    /\ ~FelizHolds(Pct(95), Pct(30), 3)

-----------------------------------------------------------------------------
(* calculateZScores and calculateDeceptionProbability on a SignalProcessor  *)
(* whose signals sit at, or 3 off, the means of its active baseline         *)

\* the baselines a SignalProcessor can hold: none, or one set by a calibration
\* whose samples were none, constant or varied
ActiveBaselines ==
    {null} \cup
    {CalibratedBaseline(cd) : cd \in
    {EmptyCalibrationData,
     [attention |-> <<80 * SCALE, 80 * SCALE>>, blinkRate |-> <<12 * SCALE, 12 * SCALE>>,
      fatigue |-> <<30 * SCALE, 30 * SCALE>>, headMotion |-> <<0, 0>>,
      emotionVolatility |-> <<Pct(65), Pct(65)>>],
     [attention |-> <<60 * SCALE, 90 * SCALE>>, blinkRate |-> <<10 * SCALE, 20 * SCALE>>,
      fatigue |-> <<20 * SCALE, 50 * SCALE>>, headMotion |-> <<0, 32 * SCALE>>,
      emotionVolatility |-> <<Pct(50), Pct(90)>>]}}

MetricNames == {"attention", "blinkRate", "fatigue", "headMotion", "emotionVolatility"}

MeanField(key) ==
    CASE key = "attention" -> "attentionMean"
      [] key = "blinkRate" -> "blinkRateMean"
      [] key = "fatigue" -> "fatigueMean"
      [] key = "headMotion" -> "headMotionMean"
      [] key = "emotionVolatility" -> "emotionVolatilityMean"

\* a SignalProcessor after setBaseline (when calibrated) and updateSignals
ScoredProcessor(baseline, offset) ==
    LET sp == [NewSignalProcessor EXCEPT !.baseline = baseline]
        Mean(key) == getBaseline(sp)[MeanField(key)]
    IN  updateSignals(sp,
                      Mean("attention") + offset["attention"],
                      Mean("blinkRate") + offset["blinkRate"],
                      Mean("fatigue") + offset["fatigue"],
                      Mean("headMotion") + offset["headMotion"],
                      Mean("emotionVolatility") + offset["emotionVolatility"])

ScoreInit ==
    /\ MainInit
    /\ pl = <<>>
    /\ bd = <<>>
    /\ rt = <<>>
    /\ se = <<>>
    /\ \E baseline \in ActiveBaselines, offset \in [MetricNames -> {0, 3 * SCALE}] :
          fn = [sp |-> ScoredProcessor(baseline, offset), done |-> FALSE]

\* calculateZScores, then calculateDeceptionProbability on what it returned
ScoreSignals ==
    /\ ~fn.done
    /\ \E zScores \in {calculateZScores(fn.sp)} :
          fn' = [sp |-> fn.sp, done |-> TRUE, zScores |-> zScores,
                 probability |-> calculateDeceptionProbability(zScores)]
    /\ UNCHANGED <<mainVars, pl, bd, rt, se>>

SpecScore == ScoreInit /\ [][ScoreSignals]_vars

\* C13: a signal equal to the mean of its metric in the active baseline has
\* z-score 0, and five z-scores of 0 give probability 0.
C13_ZeroAtBaselineMean ==
    fn.done =>
        /\ \A key \in MetricNames :
               fn.sp.currentSignals[key] = getBaseline(fn.sp)[MeanField(key)]
                   => fn.zScores[key] = 0
        /\ (\A key \in MetricNames : fn.zScores[key] = 0) => fn.probability = 0

-----------------------------------------------------------------------------
(* calculateDeceptionProbability on a record of five z-scores *)

\* z-scores: below, at and above the saturation point
ZValues == {0, SCALE \div 2, SCALE, 2 * SCALE, (7 * SCALE) \div 2}

ProbabilityInit ==
    /\ MainInit
    /\ pl = <<>>
    /\ bd = <<>>
    /\ rt = <<>>
    /\ se = <<>>
    /\ \E zScores \in [MetricNames -> ZValues] : fn = [zScores |-> zScores, done |-> FALSE]

ProbabilityOf ==
    /\ ~fn.done
    /\ fn' = [zScores |-> fn.zScores, done |-> TRUE,
              probability |-> calculateDeceptionProbability(fn.zScores)]
    /\ UNCHANGED <<mainVars, pl, bd, rt, se>>

SpecProbability == ProbabilityInit /\ [][ProbabilityOf]_vars

\* round(100 * weight) for the weights 0.28 / 0.22 / 0.16 / 0.18 / 0.16
RoundedWeights ==
    [attention |-> 28, blinkRate |-> 22, fatigue |-> 16, headMotion |-> 18,
     emotionVolatility |-> 16]

\* C14: raising one z-score with the other four fixed never lowers the
\* probability; a z-score above 2 counts as 2; one metric at z >= 2 with the
\* others at 0 gives round(100 * weight of that metric).
C14_MonotoneSaturatingWeighted ==
    fn.done =>
        \A key \in MetricNames :
            /\ \A z \in ZValues :
                   z >= fn.zScores[key] =>
                       calculateDeceptionProbability([fn.zScores EXCEPT ![key] = z])
                           >= fn.probability
            /\ fn.zScores[key] >= 2 * SCALE =>
                   calculateDeceptionProbability([fn.zScores EXCEPT ![key] = 2 * SCALE])
                       = fn.probability
            /\ (/\ fn.zScores[key] >= 2 * SCALE
                /\ \A other \in MetricNames \ {key} : fn.zScores[other] = 0)
                   => fn.probability = RoundedWeights[key]

\* attention alone far above saturation: probability 28
C14_AttentionSaturated ==
    /\ fn.done
    /\ fn.zScores = [key \in MetricNames |->
                        IF key = "attention" THEN (7 * SCALE) \div 2 ELSE 0]
    /\ fn.probability = 28

-----------------------------------------------------------------------------
(* calculateStats on constant samples, in the arithmetic of JavaScript      *)
(* numbers: IEEE-754 doubles, 53 significant bits, round to nearest even.   *)
(* A non-negative number is its multiple of 2^-UnitBits, written as the     *)
(* sequence of its digits in base Limb, lowest first, no leading zeros.     *)

MaxSamples == 6     \* frames of one calibration session

Limb == 2^15

Zeros(k) == IF k = 0 THEN <<>> ELSE [i \in 1..k |-> 0]

RECURSIVE BigOf(_)
BigOf(x) == IF x = 0 THEN <<>> ELSE <<x % Limb>> \o BigOf(x \div Limb)

\* a + b + carry
RECURSIVE AddBig(_, _, _)
AddBig(a, b, carry) ==
    IF a = <<>> /\ b = <<>>
    THEN BigOf(carry)
    ELSE Only({<<x % Limb>> \o AddBig(IF a = <<>> THEN <<>> ELSE Tail(a),
                                      IF b = <<>> THEN <<>> ELSE Tail(b), x \div Limb) :
                  x \in {(IF a = <<>> THEN 0 ELSE a[1]) + (IF b = <<>> THEN 0 ELSE b[1])
                         + carry}})

\* a * m + carry for 0 <= m < Limb
RECURSIVE MulSmall(_, _, _)
MulSmall(a, m, carry) ==
    IF a = <<>>
    THEN BigOf(carry)
    ELSE Only({<<x % Limb>> \o MulSmall(Tail(a), m, x \div Limb) :
                  x \in {a[1] * m + carry}})

\* quotient and remainder of a by n for 0 < n <= Limb, from digit i down
RECURSIVE DivFrom(_, _, _, _, _)
DivFrom(a, n, i, rem, q) ==
    IF i = 0
    THEN [q |-> IF q # <<>> /\ q[Len(q)] = 0 THEN SubSeq(q, 1, Len(q) - 1) ELSE q,
          rem |-> rem]
    ELSE Only({DivFrom(a, n, i - 1, r % n, <<r \div n>> \o q) :
                  r \in {rem * Limb + a[i]}})

DivSmall(a, n) == Only({DivFrom(v, n, Len(v), 0, <<>>) : v \in {a}})

\* a * 2^k
ShiftLeft(a, k) ==
    IF a = <<>> THEN <<>> ELSE Zeros(k \div 15) \o MulSmall(a, 2^(k % 15), 0)

\* floor(a / 2^k)
ShiftRight(a, k) == DivSmall(SubSeq(a, (k \div 15) + 1, Len(a)), 2^(k % 15)).q

RECURSIVE IntBitLen(_)
IntBitLen(x) == IF x = 0 THEN 0 ELSE 1 + IntBitLen(x \div 2)

BitLen(a) == IF a = <<>> THEN 0 ELSE 15 * (Len(a) - 1) + IntBitLen(a[Len(a)])

BitAt(a, j) == (a[(j \div 15) + 1] \div 2^(j % 15)) % 2

\* the nearest number of 53 significant bits, ties to even; inexact tells that
\* a is the truncation of a larger value
Round53(a, inexact) ==
    Only({IF BitLen(v) <= 53 THEN v
          ELSE Only({LET above == inexact \/ \E j \in 0..(k - 2) : BitAt(v, j) = 1
                         up == BitAt(v, k - 1) = 1 /\ (above \/ BitAt(v, k) = 1)
                         q == ShiftRight(v, k)
                     IN  ShiftLeft(IF up THEN AddBig(q, <<1>>, 0) ELSE q, k) :
                        k \in {BitLen(v) - 53}}) :
             v \in {a}})

UnitBits == 60
GuardBits == 8

\* the double a decimal literal num / den denotes
DoubleOf(num, den) ==
    Only({Round53(d.q, d.rem # 0) : d \in {DivSmall(ShiftLeft(BigOf(num), UnitBits), den)}})

\* data.reduce((a, b) => a + b, 0) for n samples v
RECURSIVE SumOfConstant(_, _)
SumOfConstant(v, n) ==
    IF n = 0 THEN <<>> ELSE Round53(AddBig(SumOfConstant(v, n - 1), v, 0), FALSE)

\* calculateStats of n samples v.  The mean is in units of
\* 2^-(UnitBits + GuardBits).  Every (b - mean)^2 is 0 when the mean equals v
\* and a positive double otherwise, so the variance is 0 exactly when the mean
\* equals v, and only then does `Math.sqrt(variance) || 0.1` give 0.1.
calculateStatsOfConstant(v, n) ==
    IF n = 0
    THEN [mean |-> <<>>, std |-> "0.1"]
    ELSE Only({[mean |-> mean,
                std |-> IF mean = ShiftLeft(v, GuardBits)
                        THEN "0.1" ELSE "Math.sqrt(variance)"] :
                  mean \in {Only({Round53(d.q, d.rem # 0) :
                                     d \in {DivSmall(ShiftLeft(SumOfConstant(v, n),
                                                               GuardBits), n)}})}})

\* the values a metric can hold: 80, 12, 14.5, 75.3, 0.92, 0.65, 0.35, 0.1, 0
SampleLiterals ==
    {<<80, 1>>, <<12, 1>>, <<29, 2>>, <<753, 10>>, <<92, 100>>, <<65, 100>>,
     <<35, 100>>, <<1, 10>>, <<0, 1>>}

StatsInit ==
    /\ MainInit
    /\ pl = <<>>
    /\ bd = <<>>
    /\ rt = <<>>
    /\ se = <<>>
    /\ \E lit \in SampleLiterals, n \in 0..MaxSamples :
          fn = [literal |-> lit, v |-> DoubleOf(lit[1], lit[2]), n |-> n, done |-> FALSE]

\* the completion callback applies calculateStats to the samples of a metric
StatsOf ==
    /\ ~fn.done
    /\ fn' = [fn EXCEPT !.done = TRUE] @@ [stats |-> calculateStatsOfConstant(fn.v, fn.n)]
    /\ UNCHANGED <<mainVars, pl, bd, rt, se>>

SpecStats == StatsInit /\ [][StatsOf]_vars

\* C16: a session whose frames all supply the same value v for a metric gives
\* mean exactly v and the floor 0.1 as standard deviation; a session without
\* frames gives mean 0 and standard deviation 0.1.
C16_ConstantSamplesGiveMeanAndFloor ==
    fn.done =>
        /\ fn.stats.std = "0.1"
        /\ fn.stats.mean = IF fn.n = 0 THEN <<>> ELSE ShiftLeft(fn.v, GuardBits)

-----------------------------------------------------------------------------
(* The personality submit handler on answer lists of any length *)

\* ten answers, of which one item pair takes every pair of answers and the
\* other items share one answer; or too few or too many answers
SubmittedSheets ==
    {[i \in 1..10 |-> IF i = 2 * k - 1 THEN a ELSE IF i = 2 * k THEN b ELSE c] :
        k \in 1..5, a \in 1..5, b \in 1..5, c \in {1, 3, 5}}
    \cup AnswerSheets
    \cup {[i \in 1..n |-> v] : n \in {0, 9, 11}, v \in {1, 3}}

\* runtimeState.personalityProfile = computeBigFive(answers): a throw leaves
\* the assignment undone and ends the handler
StoreProfile(personalityProfile, answers) ==
    Only({[personalityProfile |-> IF r.error THEN personalityProfile ELSE r.value,
           thrown |-> r.error] :
             r \in {computeBigFive(answers)}})

PersonalityInit ==
    /\ MainInit
    /\ pl = <<>>
    /\ bd = <<>>
    /\ rt = <<>>
    /\ se = <<>>
    /\ \E profile \in {null, computeBigFive([i \in 1..10 |-> 3]).value},
          answers \in SubmittedSheets :
          fn = [before |-> profile, answers |-> answers, done |-> FALSE]

SubmitAnswers ==
    /\ ~fn.done
    /\ \E r \in {StoreProfile(fn.before, fn.answers)} :
          fn' = [before |-> fn.before, answers |-> fn.answers, done |-> TRUE,
                 personalityProfile |-> r.personalityProfile, thrown |-> r.thrown]
    /\ UNCHANGED <<mainVars, pl, bd, rt, se>>

SpecPersonality == PersonalityInit /\ [][SubmitAnswers]_vars

\* C19: computeBigFive throws exactly when the number of answers is not 10,
\* and the stored personalityProfile is then what it was before.
C19_WrongCountRejected ==
    fn.done =>
        /\ fn.thrown <=> Len(fn.answers) # 10
        /\ fn.thrown => fn.personalityProfile = fn.before

\* eleven answers were submitted over a stored profile: thrown, profile kept
C19_ElevenAnswersRejected ==
    /\ fn.done
    /\ Len(fn.answers) = 11
    /\ fn.thrown
    /\ fn.before # null
    /\ fn.personalityProfile = fn.before

TraitNames == <<"O", "C", "E", "A", "N">>

\* C20: for ten answers in 1..5 every trait is (non-reversed answer + (6 -
\* reversed answer)) / 2 of its item pair and lies in [1, 5]; the answers
\* 5,1,5,1,5,1,5,1,5,1 give 5 for every trait and ten answers of 3 give 3.
C20_TraitIsPairMean ==
    /\ fn.done /\ Len(fn.answers) = 10 =>
           \A k \in 1..5 :
               /\ 2 * fn.personalityProfile[TraitNames[k]] =
                      (fn.answers[2 * k - 1] + (6 - fn.answers[2 * k])) * SCALE
               /\ fn.personalityProfile[TraitNames[k]] >= SCALE
               /\ fn.personalityProfile[TraitNames[k]] <= 5 * SCALE
    /\ fn.done /\ fn.answers = <<5, 1, 5, 1, 5, 1, 5, 1, 5, 1>> =>
           \A k \in 1..5 : fn.personalityProfile[TraitNames[k]] = 5 * SCALE
    /\ fn.done /\ fn.answers = [i \in 1..10 |-> 3] =>
           \A k \in 1..5 : fn.personalityProfile[TraitNames[k]] = 3 * SCALE

\* the maximally trait-positive answers were submitted: every trait is 5
C20_AllTraitsFive ==
    /\ fn.done
    /\ fn.answers = <<5, 1, 5, 1, 5, 1, 5, 1, 5, 1>>
    /\ \A k \in 1..5 : fn.personalityProfile[TraitNames[k]] = 5 * SCALE

-----------------------------------------------------------------------------
(* The frame loop keeps going *)

\* the positions of a frameLoop that has a successor: one scheduled, or one
\* awaiting inside analyzeFrame
LoopAlive == loop.pc \in {"scheduled", "awaitFace", "awaitEmotion"}

\* a frameLoop invocation ends: getFrame threw, or an await of analyzeFrame
\* rejected, or analyzeFrame returned
InvocationEnds ==
    \/ loop.pc = "scheduled" /\ loop'.frames = loop.frames + 1 /\ loop'.pc = "scheduled"
    \/ loop.pc = "awaitFace" /\ loop'.pc # "awaitEmotion" /\ loop' # loop
    \/ loop.pc = "awaitEmotion" /\ loop' # loop

\* what a frame without a face resolves to
NoFaceFallback(stableAge, analysis, score) ==
    /\ analysis.fatigue = [level |-> "Baja", blinkRate |-> 14 * SCALE,
                           eyeAspectRatio |-> Pct(34)]
    /\ score = 35 * SCALE
    /\ analysis.age = [age |-> stableAge, confidence |-> Pct(70)]
    /\ analysis.headPose = [yaw |-> 0, pitch |-> 0, roll |-> 0]

\* C21: while isRunning is true the frame loop never halts: every frameLoop
\* invocation, whether capture and analysis succeed or throw, leaves a
\* successor scheduled; and a frame with no face detected completes with the
\* fallbacks: fatigue score 35, level Baja, blink rate 14, EAR 0.34, age the
\* previous stable age with confidence 0.7, head pose zero
C21_LoopNeverHalts ==
    /\ [](loop.isRunning => LoopAlive)
    /\ [][loop.isRunning => loop'.isRunning]_vars
    /\ [][InvocationEnds => loop'.pc = "scheduled"]_vars
    /\ [][loop.pc = "awaitEmotion" /\ loop.faceAnalysis = NoFace /\ loop' # loop
            => \/ ~FrameAnalysed /\ runtimeState' = runtimeState
               \/ /\ FrameAnalysed
                  /\ NoFaceFallback(runtimeState.stableAge,
                                    runtimeState'.currentAnalysis,
                                    runtimeState'.fatigueHistory[
                                        Len(runtimeState'.fatigueHistory)])]_vars

\* a frame without a face has been analysed after an earlier invocation threw
C21_NoFaceFrameAfterThrow ==
    /\ loop.pc = "scheduled"
    /\ loop.frames = 2
    /\ Len(runtimeState.attentionHistory) = 1
    /\ NoFaceFallback(runtimeState.stableAge, runtimeState.currentAnalysis,
                      runtimeState.fatigueHistory[1])

-----------------------------------------------------------------------------
(* applyEMA on JavaScript numbers, applied repeatedly to a constant input *)

MaxEmaSteps == 3    \* applications of applyEMA

\* a - b - borrow for a >= b + borrow
RECURSIVE SubBig(_, _, _)
SubBig(a, b, borrow) ==
    IF a = <<>>
    THEN <<>>
    ELSE Only({Only({IF r = <<>> /\ x % Limb = 0 THEN <<>> ELSE <<x % Limb>> \o r :
                        r \in {SubBig(Tail(a), IF b = <<>> THEN <<>> ELSE Tail(b),
                                      IF x < 0 THEN 1 ELSE 0)}}) :
                  x \in {a[1] - (IF b = <<>> THEN 0 ELSE b[1]) - borrow}})

\* a * b
RECURSIVE MulBig(_, _)
MulBig(a, b) ==
    IF a = <<>> \/ b = <<>>
    THEN <<>>
    ELSE Only({AddBig(IF b[1] = 0 THEN <<>> ELSE MulSmall(a, b[1], 0),
                      IF r = <<>> THEN <<>> ELSE <<0>> \o r, 0) :
                  r \in {MulBig(a, Tail(b))}})

\* alpha * newValue + (1 - alpha) * previousValue on doubles in units of
\* 2^-UnitBits: the difference, both products and the sum are each rounded
applyEMAOfDoubles(newValue, previousValue, alpha) ==
    Only({ShiftRight(Round53(AddBig(Round53(MulBig(alpha, newValue), FALSE),
                                    Round53(MulBig(rest, previousValue), FALSE), 0),
                             FALSE), UnitBits) :
             rest \in {Round53(SubBig(ShiftLeft(<<1>>, UnitBits), alpha, 0), FALSE)}})

(***************************************************************************)
(* Harness: a smoother with one of the smoothing factors of main.ts holds  *)
(* a previous value and is fed a constant input                            *)
(***************************************************************************)
EmaInit ==
    /\ MainInit
    /\ pl = <<>>
    /\ bd = <<>>
    /\ rt = <<>>
    /\ se = <<>>
    /\ \E a \in {<<12, 100>>, <<15, 100>>, <<18, 100>>, <<1, 5>>},
          c \in {<<99, 1>>, <<75, 1>>, <<14, 1>>, <<1, 10>>},
          p \in {<<99, 1>>, <<75, 1>>, <<14, 1>>, <<1, 10>>, <<0, 1>>} :
          fn = [alpha |-> DoubleOf(a[1], a[2]), newValue |-> DoubleOf(c[1], c[2]),
                previousValue |-> DoubleOf(p[1], p[2]), before |-> <<>>, steps |-> 0]

\* previousValue = applyEMA(newValue, previousValue, alpha)
EmaStep ==
    /\ fn.steps < MaxEmaSteps
    /\ fn' = [fn EXCEPT !.previousValue = applyEMAOfDoubles(fn.newValue, @, fn.alpha),
                        !.before = fn.previousValue,
                        !.steps = @ + 1]
    /\ UNCHANGED <<mainVars, pl, bd, rt, se>>

SpecEma == EmaInit /\ [][EmaStep]_vars

\* C22: every value is a fixed point of applyEMA: applyEMA(x, x, alpha) = x
\* for every x and every alpha in [0, 1]
C22_EveryValueIsFixedPoint ==
    fn.steps > 0 /\ fn.before = fn.newValue => fn.previousValue = fn.newValue

\* a <= b
LeBig(a, b) ==
    \/ Len(a) < Len(b)
    \/ /\ Len(a) = Len(b)
       /\ \/ a = b
          \/ \E i \in 1..Len(a) : a[i] < b[i] /\ \A j \in (i + 1)..Len(a) : a[j] = b[j]

\* |a - b|
DistBig(a, b) == IF LeBig(a, b) THEN SubBig(b, a, 0) ELSE SubBig(a, b, 0)

\* C23: under repeated application with a constant input c and a fixed alpha
\* with 0 < alpha < 1, from any previous value, the smoothed value converges
\* monotonically toward c: at every step the distance to c does not increase
\* and the value does not cross to the other side of c
C23_MonotoneTowardInput ==
    fn.steps > 0 =>
        /\ LeBig(DistBig(fn.previousValue, fn.newValue), DistBig(fn.before, fn.newValue))
        /\ LeBig(fn.before, fn.newValue) => LeBig(fn.previousValue, fn.newValue)
        /\ LeBig(fn.newValue, fn.before) => LeBig(fn.newValue, fn.previousValue)

-----------------------------------------------------------------------------
(* The emotion volatility of calculateDeceptionEstimate                    *)

(***************************************************************************)
(* Harness: calculateDeceptionEstimate called on a session whose emotion   *)
(* history holds up to EMOTION_HISTORY_SIZE stabilized labels: every short *)
(* history, and long ones whose label changes sit at their start           *)
(***************************************************************************)
VolatilityInit ==
    /\ MainInit
    /\ pl = <<>>
    /\ bd = <<>>
    /\ rt = <<>>
    /\ se = <<>>
    /\ \E h \in UNION {[1..n -> {"Neutral", "Feliz", "Triste"}] : n \in 0..4}
                \cup {[i \in 1..n |-> IF i <= k /\ i % 2 = 1 THEN "Feliz" ELSE "Neutral"] :
                         n \in {19, 20, 21, 22, EMOTION_HISTORY_SIZE},
                         k \in {0, 2, 5, EMOTION_HISTORY_SIZE}} :
          fn = [rs |-> [InitialRuntimeState EXCEPT !.emotionHistory = h],
                emotionHistory |-> h, done |-> FALSE]

\* the countdown callback computes the estimate: the processor receives the
\* signals
VolatilityOf ==
    /\ ~fn.done
    /\ fn' = [fn EXCEPT !.rs = calculateDeceptionEstimate(@).rs, !.done = TRUE]
    /\ UNCHANGED <<mainVars, pl, bd, rt, se>>

SpecVolatility == VolatilityInit /\ [][VolatilityOf]_vars

\* the trailing 20 labels of a history
TrailingLabels(h) ==
    IF Len(h) <= 20 THEN h ELSE [i \in 1..20 |-> h[Len(h) - 20 + i]]

\* the adjacent pairs of a sequence whose labels differ
ChangedPairs(t) == {i \in 1..(Len(t) - 1) : t[i] # t[i + 1]}

-----------------------------------------------------------------------------
(* Frames without a face *)

\* the state the face measurements drive: the blink detector's window and
\* events, and the stabilizers of estimateAge, estimateAttention, estimateFatigue
FaceDriven(rs, det) ==
    <<det, rs.earHistory, rs.blinkRateHistory, rs.yawnCount, rs.baselineAgeSamples,
      rs.stableAge, rs.smoothedAttention, rs.smoothedFatigue>>

\* a step of analyzeFrame after analyzeFaceFromVideo resolved to no face
NoFaceStep ==
    \/ loop.pc = "awaitFace" /\ loop'.pc = "awaitEmotion" /\ loop'.faceAnalysis = NoFace
    \/ loop.pc = "awaitEmotion" /\ loop.faceAnalysis = NoFace /\ loop' # loop

\* a frameLoop invocation reaches analyzeFrame
AnalysisStarts == loop'.frames = loop.frames + 1 /\ loop'.pc = "awaitFace"

\* C25 (as stated), on the first analysed frame: a frame without a face leaves
\* the blink window and events, the EAR and blink-rate histories, the yawn
\* counter, the age samples, stableAge, smoothedAttention and smoothedFatigue
\* with the values they had before analyzeFrame
C25_NoFaceFrameKeepsState ==
    /\ loop.frames = 1
    /\ loop.pc = "scheduled"
    /\ Len(runtimeState.attentionHistory) = 1
    /\ runtimeState.currentAnalysis.age.confidence = Pct(70)
    => FaceDriven(runtimeState, blinkDetector)
         = FaceDriven(InitialRuntimeState, NewBlinkDetector)

\* C25 (amended): analyzeFrame writes none of them once the face analysis
\* resolved to no face, and before that it writes only stableAge, to 24, on
\* the first call
C25_NoFacePathWritesNothing ==
    /\ [][NoFaceStep => FaceDriven(runtimeState', blinkDetector')
                          = FaceDriven(runtimeState, blinkDetector)]_vars
    /\ [][AnalysisStarts
            => FaceDriven(runtimeState', blinkDetector')
                 = FaceDriven([runtimeState EXCEPT
                                  !.stableAge = IF runtimeState.initialized
                                                THEN @ ELSE 24 * SCALE],
                              blinkDetector)]_vars

\* a frame without a face has been analysed after a frame with a face, whose
\* blink window entry and age sample are still there
C25_NoFaceAfterFace ==
    /\ loop.frames = 2
    /\ loop.pc = "scheduled"
    /\ Len(runtimeState.attentionHistory) = 2
    /\ NoFaceFallback(runtimeState.stableAge, runtimeState.currentAnalysis,
                      runtimeState.fatigueHistory[2])
    /\ Len(blinkDetector.frames) = 1
    /\ Len(runtimeState.baselineAgeSamples) = 1
    /\ Len(runtimeState.earHistory) = 1

-----------------------------------------------------------------------------
(* What a calibration session resets and replaces *)

\* C26: starting a calibration empties the attention, fatigue and emotion
\* histories, the emotion accumulator, the age sample buffer and the five
\* calibration accumulators and leaves the active baseline unchanged; the
\* baseline calculateZScores reads changes only at the completion step, where
\* it is replaced as a whole by the baseline computed from the accumulators,
\* so that it never changes while isCalibrating stays true
C26_StartResetsCompletionReplaces ==
    /\ [][CalibrationStarts
            => /\ runtimeState'.attentionHistory = <<>>
               /\ runtimeState'.fatigueHistory = <<>>
               /\ runtimeState'.emotionHistory = <<>>
               /\ runtimeState'.emotionScores = <<>>
               /\ runtimeState'.baselineAgeSamples = <<>>
               /\ \A k \in DOMAIN runtimeState'.calibrationData :
                     runtimeState'.calibrationData[k] = <<>>
               /\ DOMAIN runtimeState'.calibrationData
                     = {"attention", "blinkRate", "fatigue", "headMotion",
                        "emotionVolatility"}
               /\ runtimeState'.signalProcessor = runtimeState.signalProcessor]_vars
    /\ [][getBaseline(runtimeState'.signalProcessor)
             # getBaseline(runtimeState.signalProcessor)
            => /\ CalibrationEnds
               /\ getBaseline(runtimeState'.signalProcessor)
                    = CalibratedBaseline(runtimeState.calibrationData)]_vars
    /\ [][runtimeState.isCalibrating /\ runtimeState'.isCalibrating
            => runtimeState'.signalProcessor.baseline
                 = runtimeState.signalProcessor.baseline]_vars

\* a session was started after a frame with a face had been analysed: the
\* histories, the accumulator and the age samples that frame filled are empty
C26_SessionStartedAfterFrame ==
    /\ runtimeState.isCalibrating
    /\ loop.pc = "scheduled"
    /\ runtimeState.earHistory # <<>>
    /\ runtimeState.attentionHistory = <<>>
    /\ runtimeState.emotionScores = <<>>
    /\ runtimeState.baselineAgeSamples = <<>>
    /\ runtimeState.signalProcessor.baseline = null

-----------------------------------------------------------------------------
(* The calibration accumulators *)

\* the sample set a finishing frame leaves behind
FrameSample(rs) ==
    [attention |-> rs.attentionHistory[Len(rs.attentionHistory)],
     blinkRate |-> rs.currentAnalysis.fatigue.blinkRate,
     fatigue |-> rs.fatigueHistory[Len(rs.fatigueHistory)],
     headMotion |-> HeadMotion(rs.currentAnalysis.headPose),
     emotionVolatility |-> rs.currentAnalysis.emotion.score]

\* C27: the five calibration accumulators always have the same length; a
\* sample set is appended only by a frame that finishes while isCalibrating is
\* true, so that outside a session the accumulators never grow; and the
\* baseline is computed from the samples appended since the session's start:
\* the start empties the accumulators and the completion reads them
C27_AccumulatorsGrowOnlyInSession ==
    /\ [](\A k \in DOMAIN runtimeState.calibrationData :
             Len(runtimeState.calibrationData[k])
               = Len(runtimeState.calibrationData.attention))
    /\ [][runtimeState'.calibrationData # runtimeState.calibrationData
            => \/ /\ CalibrationStarts
                  /\ runtimeState'.calibrationData = EmptyCalibrationData
               \/ /\ FrameAnalysed
                  /\ runtimeState.isCalibrating
                  /\ runtimeState'.isCalibrating
                  /\ \A k \in DOMAIN runtimeState.calibrationData :
                        runtimeState'.calibrationData[k]
                          = Append(runtimeState.calibrationData[k],
                                   FrameSample(runtimeState')[k])]_vars
    /\ [][FrameAnalysed /\ runtimeState.isCalibrating
            => Len(runtimeState'.calibrationData.attention)
                 = Len(runtimeState.calibrationData.attention) + 1]_vars
    /\ [][CalibrationStarts => runtimeState'.calibrationData = EmptyCalibrationData]_vars
    /\ [][runtimeState'.signalProcessor.baseline # runtimeState.signalProcessor.baseline
            => runtimeState'.signalProcessor.baseline
                 = CalibratedBaseline(runtimeState.calibrationData)]_vars

\* a session has completed on the one sample set appended during it, and a
\* frame analysed after it appended nothing
C27_FrameAfterSession ==
    /\ ~runtimeState.isCalibrating
    /\ runtimeState.signalProcessor.baseline # null
    /\ Len(runtimeState.calibrationData.attention) = 1
    /\ Len(runtimeState.attentionHistory) = 2
    /\ runtimeState.signalProcessor.baseline
         = CalibratedBaseline(runtimeState.calibrationData)

-----------------------------------------------------------------------------
(* One frame analysis at a time *)

\* an analyzeFrame call is suspended at one of its awaits
AnalysisInFlight == loop.pc \in {"awaitFace", "awaitEmotion"}

\* C28: at most one frame analysis is in flight: analyzeFrame is entered only
\* when no call is in flight, by init's one frameLoop call or by the one
\* successor the previous invocation scheduled after its analyzeFrame call
\* completed or threw
C28_OneAnalysisInFlight ==
    /\ [][AnalysisStarts
            => /\ ~AnalysisInFlight
               /\ loop.pc \in {"init", "scheduled"}]_vars
    /\ [][loop.pc # "scheduled" /\ loop'.pc = "scheduled"
            => AnalysisInFlight \/ loop.pc = "init"]_vars
    /\ [][AnalysisInFlight /\ loop' # loop
            => loop'.frames = loop.frames /\ loop'.pc \in {"awaitEmotion", "scheduled"}]_vars

\* the second analysis is in flight after the first one completed
C28_SecondAnalysisInFlight ==
    /\ AnalysisInFlight
    /\ loop.frames = 2
    /\ Len(runtimeState.attentionHistory) = 1

-----------------------------------------------------------------------------
(* The age stabilizer over many frames *)

MaxGuessChanges == 1    \* frames whose age guess differs from the frame before

\* a face whose instantaneous age is g, for g in 18..33: a smile below 22,
\* squinting above, narrowed eyes from 28 on
AgedFace(g) ==
    [FaceAttentive EXCEPT
        !.eyeAspectRatio = IF g >= 28 THEN Pct(20) ELSE Pct(36),
        !.blendshapes =
            [NoBlend EXCEPT
                !.mouthSmileLeft = IF g < 22 THEN (22 - g) * (SCALE \div 4) ELSE 0,
                !.mouthSmileRight = IF g < 22 THEN (22 - g) * (SCALE \div 4) ELSE 0,
                !.eyeSquintLeft = IF g >= 28 THEN (g - 28) * (SCALE \div 5)
                                  ELSE IF g > 22 THEN (g - 22) * (SCALE \div 5) ELSE 0,
                !.eyeSquintRight = IF g >= 28 THEN (g - 28) * (SCALE \div 5)
                                   ELSE IF g > 22 THEN (g - 22) * (SCALE \div 5) ELSE 0]]

(***************************************************************************)
(* Harness: estimateAge called frame after frame on faces of given ages,   *)
(* starting from an empty sample buffer (page load, or a calibrate click)  *)
(* and one of the stable ages a session passes through; loop.frames counts *)
(* the frames modulo 2                                                     *)
(***************************************************************************)
AgeInit ==
    /\ MainInit
    /\ pl = <<>>
    /\ bd = <<>>
    /\ rt = <<>>
    /\ se = <<>>
    /\ \E stableAge \in {24, 28} :
          fn = [rs |-> [InitialRuntimeState EXCEPT !.initialized = TRUE,
                                                  !.stableAge = stableAge * SCALE],
                before |-> <<>>, guess |-> 0, changes |-> 0]

\* a frame with a face of age g: analyzeFrame calls estimateAge
AgeFrame(g) ==
    /\ fn.guess \in {0, g} \/ fn.changes < MaxGuessChanges
    /\ \E r \in {estimateAge(fn.rs, AgedFace(g))} :
          fn' = [rs |-> r.rs, before |-> fn.rs, guess |-> g,
                 changes |-> IF fn.guess \in {0, g} THEN fn.changes ELSE fn.changes + 1]
    /\ loop' = [loop EXCEPT !.frames = (@ + 1) % 2]
    /\ UNCHANGED <<runtimeState, blinkDetector, ui, timers, now, pl, bd, rt, se>>

\* the browser keeps calling frameLoop back: frames keep arriving
SpecAge ==
    /\ AgeInit
    /\ [][\E g \in {18, 27, 33} : AgeFrame(g)]_vars
    /\ WF_loop(loop' = [loop EXCEPT !.frames = (@ + 1) % 2])

\* every frame so far supplied the age guess g
OnlyGuess(g) ==
    \A i \in 1..Len(fn.rs.baselineAgeSamples) : fn.rs.baselineAgeSamples[i] = g * SCALE

\* C29: if every frame with a face supplies the same instantaneous age guess
\* g, then from any starting stable age the displayed age moves monotonically
\* toward g and eventually equals g
C29_AgeReachesConstantGuess ==
    /\ [][\A g \in {18, 27, 33} :
            OnlyGuess(g)'
            => /\ Abs(fn'.rs.stableAge - g * SCALE) <= Abs(fn.rs.stableAge - g * SCALE)
               /\ fn.rs.stableAge <= g * SCALE => fn'.rs.stableAge <= g * SCALE
               /\ fn.rs.stableAge >= g * SCALE => fn'.rs.stableAge >= g * SCALE]_vars
    /\ \A g \in {18, 27, 33} : <>(~OnlyGuess(g) \/ fn.rs.stableAge = g * SCALE)

\* at least half of the samples are <= m and at least half are >= m
IsMedian(m, samples) ==
    /\ 2 * Cardinality({i \in 1..Len(samples) : samples[i] <= m}) >= Len(samples)
    /\ 2 * Cardinality({i \in 1..Len(samples) : samples[i] >= m}) >= Len(samples)

\* C30: the displayed stable age is always an integer in [18, 40], the age
\* sample buffer holds at most 45 samples, each in [18, 40], and the target
\* the age was smoothed toward is a median of the buffer
C30_AgeAndBufferInRange ==
    /\ fn.rs.stableAge % SCALE = 0
    /\ fn.rs.stableAge \in (18 * SCALE)..(40 * SCALE)
    /\ Len(fn.rs.baselineAgeSamples) <= 45
    /\ \A i \in 1..Len(fn.rs.baselineAgeSamples) :
          fn.rs.baselineAgeSamples[i] \in (18 * SCALE)..(40 * SCALE)
    /\ fn.guess # 0 =>
          \E i \in 1..Len(fn.rs.baselineAgeSamples) :
              /\ IsMedian(fn.rs.baselineAgeSamples[i], fn.rs.baselineAgeSamples)
              /\ fn.rs.stableAge
                   = Rounded(applyEMA(fn.rs.baselineAgeSamples[i], fn.before.stableAge,
                                      Pct(12)))

\* the buffer is full, holds two different ages, its oldest sample has been
\* evicted, and the age moved
C30_FullMixedBuffer ==
    /\ Len(fn.rs.baselineAgeSamples) = 45
    /\ Len(fn.before.baselineAgeSamples) = 45
    /\ fn.changes = 1
    /\ fn.rs.baselineAgeSamples[1] # fn.rs.baselineAgeSamples[45]
    /\ fn.rs.stableAge # fn.before.stableAge

====
